---- MODULE Spec2Model ----
(***************************************************************************)
(* Verification model of the LaraCity AI service (lacity-ai):               *)
(*   - rag/retriever.py        ComplaintRetriever (retrieval pipeline)      *)
(*   - rag/vector_store.py     VectorStoreManager (index + document list)   *)
(*   - chains/analysis_chain.py ComplaintAnalysisChain (output validation)  *)
(*   - langchain_runner.py     LangChainRunner.run and main                 *)
(*   - models/openai_client.py OpenAIClient retry loops                     *)
(*                                                                         *)
(* Scores are fixed-point numbers: UNIT stands for 1.0.  All scores that   *)
(* occur (term frequency over at most six tokens, weights in tenths, the   *)
(* rerank bonuses 0.1 and 0.05) are exact on this grid.                    *)
(***************************************************************************)
EXTENDS Integers, Sequences, FiniteSets, TLC

\* ---------------------------------------------------------------- bounds
MaxDocs == 2
MaxK == 2
MaxRetries == 2
MaxOutLen == 3
MaxTokens == 3
MaxChats == 3

\* ------------------------------------------------------------- constants
\* 1.0 on the fixed-point grid: a common multiple of the token counts 1..6,
\* of the weight denominator 10 and of the bonus denominators 10 and 20.
UNIT == 6 * 100
ABSENT == 0 - 1
\* 0.1, 0.05 and 0.7 of retriever.py:558, 568, 567, on the grid
TypeBonus == UNIT \div 10
RiskBonus == UNIT \div 20
HighRisk == (7 * UNIT) \div 10

\* ------------------------------------------------------------ text model
\* A text is a sequence of tokens.  A raw query may hold the token "  "
\* (a run of whitespace) and capitalised words; str.lower() is Lower.
WS == "  "

Lower(w) ==
  CASE w = "Noise" -> "noise"
    [] w = "Water" -> "water"
    [] w = "Open" -> "open"
    [] OTHER -> w

LowerText(t) == [i \in 1..Len(t) |-> Lower(t[i])]

\* str.split(): the tokens that are not whitespace runs.
RECURSIVE Split(_)
Split(t) ==
  IF t = <<>> THEN <<>>
  ELSE IF Head(t) = WS THEN Split(Tail(t))
  ELSE <<Head(t)>> \o Split(Tail(t))

\* "not query or not query.strip()"
IsBlank(t) == Split(t) = <<>>

\* Pairs <<a, b>> of distinct vocabulary words with a a substring of b.
ProperSubstrings ==
  { <<"open", "reopened">>, <<"heat", "heating">>, <<"is", "noise">> }

IsSubstr(a, b) == a = b \/ <<a, b>> \in ProperSubstrings

\* "key in text" for a key without blanks and a text joined by single blanks
InText(key, t) == \E i \in 1..Len(t) : IsSubstr(key, t[i])

Stopwords ==
  { "the", "a", "an", "and", "or", "but", "in", "on", "at", "to", "for",
    "of", "with", "by", "is", "are", "was", "were", "be", "been", "have",
    "has", "had", "do", "does", "did", "will", "would", "could", "should",
    "may", "might", "can", "this", "that", "these", "those", "i", "you",
    "he", "she", "it", "we", "they", "me", "him", "her", "us", "them" }

\* vocabulary words of at most two characters ("len(term) > 2" fails)
ShortWords == { "in", "a", "i", "it", "we", "he", "me", "us", "on", "at",
                "to", "of", "by", "is", "be", "do", "or", "an" }

\* -------------------------------------------------------- generic helpers
RECURSIVE SeqToSet(_)
SeqToSet(s) == IF s = <<>> THEN {} ELSE {Head(s)} \cup SeqToSet(Tail(s))

Min2(a, b) == IF a <= b THEN a ELSE b
Max2(a, b) == IF a >= b THEN a ELSE b

Take(s, n) == SubSeq(s, 1, Min2(n, Len(s)))

\* list.count(x)
RECURSIVE Count(_, _)
Count(s, x) ==
  IF s = <<>> THEN 0
  ELSE (IF Head(s) = x THEN 1 ELSE 0) + Count(Tail(s), x)

\* Insert pair p = <<item, score>> into a list sorted by descending score,
\* after every element whose score is >= p's score (keeps the sort stable).
RECURSIVE InsertDesc(_, _)
InsertDesc(sorted, p) ==
  IF sorted = <<>> THEN <<p>>
  ELSE IF Head(sorted)[2] >= p[2] THEN <<Head(sorted)>> \o InsertDesc(Tail(sorted), p)
  ELSE <<p>> \o sorted

\* list.sort(key=lambda x: x[1], reverse=True): stable, descending.
RECURSIVE SortDesc(_)
SortDesc(pairs) ==
  IF pairs = <<>> THEN <<>>
  ELSE InsertDesc(SortDesc(SubSeq(pairs, 1, Len(pairs) - 1)), pairs[Len(pairs)])

Firsts(pairs) == [i \in 1..Len(pairs) |-> pairs[i][1]]

\* ---------------------------------------------------------------- documents
\* langchain Document: page_content plus a metadata mapping.  The metadata
\* keys written by the retriever are ABSENT / "none" until they are set.
Doc(id, content, borough, status, ctype, risk) ==
  [ id |-> id, content |-> content, borough |-> borough, status |-> status,
    complaint_type |-> ctype, risk_score |-> risk,
    retrieval_score |-> ABSENT, retrieval_method |-> "none",
    vector_score |-> ABSENT, keyword_score |-> ABSENT, rerank_score |-> ABSENT ]

DocPool ==
  { Doc(1, <<"loud", "noise">>, "BROOKLYN", "Open", "Noise", (8 * UNIT) \div 10),
    Doc(2, <<"loud", "noise">>, "QUEENS", "Closed", "Noise", ABSENT),
    Doc(3, <<"Water", "leak", "water">>, "BROOKLYN", "Open", "Water", UNIT \div 2),
    Doc(4, <<"loud", "noise", "water">>, "BROOKLYN", "Open", "Noise", ABSENT) }

\* lists of distinct pool documents, at most n long
DocLists(n) ==
  { s \in UNION { [1..m -> DocPool] : m \in 0..n } :
      \A i, j \in 1..Len(s) : i # j => s[i].id # s[j].id }

\* The two object stores of a VectorStoreManager: the documents held by the
\* FAISS index (vs) and the manager's own list (docs).  A reference names an
\* object by store and position.
Ref(st, i) == <<st, i>>
Deref(H, r) == H[r[1]][r[2]]
Snap(H, refs) == [i \in 1..Len(refs) |-> Deref(H, refs[i])]
Ids(ds) == [i \in 1..Len(ds) |-> ds[i].id]

\* The index is built by FAISS.from_embeddings(..., metadatas=[doc.metadata
\* for doc in documents]), which wraps each text and its metadata mapping in
\* a new Document.  Whether Document(metadata=m) keeps the mapping m itself
\* or a copy of it depends on the installed langchain / pydantic (a plain
\* dict field is kept as it is by pydantic 1 and copied by pydantic 2).  When
\* it is kept (H.aliased), the i-th document of the index and the i-th
\* document of the manager's list have one metadata mapping: a write through
\* either is seen through both.
Twin(r) == <<IF r[1] = "vs" THEN "docs" ELSE "vs", r[2]>>

Sync(H, r) ==
  IF H.aliased /\ r[2] <= Len(H[Twin(r)[1]])
  THEN [H EXCEPT ![Twin(r)[1]][r[2]] = H[r[1]][r[2]]]
  ELSE H

\* doc.metadata['retrieval_score'] = score; doc.metadata['retrieval_method'] = m
Tag(H, r, score, m) ==
  Sync([H EXCEPT ![r[1]][r[2]].retrieval_score = score,
                 ![r[1]][r[2]].retrieval_method = m], r)

RECURSIVE TagAll(_, _, _)
TagAll(H, pairs, m) ==
  IF pairs = <<>> THEN H
  ELSE TagAll(Tag(H, Head(pairs)[1], Head(pairs)[2], m), Tail(pairs), m)

\* ------------------------------------------------------------ vector index
\* metadata filter of the index: every filter key must match exactly
MatchesFilter(d, f) == \A key \in DOMAIN f : d[key] = f[key]

\* similarity scores the embedding model can give a document for a query
SimScores == { UNIT \div 2, (8 * UNIT) \div 10 }

RECURSIVE Indices(_, _, _)
Indices(ds, f, i) ==
  IF i > Len(ds) THEN <<>>
  ELSE (IF MatchesFilter(ds[i], f) THEN <<i>> ELSE <<>>) \o Indices(ds, f, i + 1)

\* VectorStoreManager.search_similar_documents.  sim[i] is the similarity of
\* the i-th indexed document to the query; fails: the library call raised.
search_similar_documents(H, has, text, k, thr, f, sim, fails) ==
  IF ~has THEN <<>>
  ELSE IF IsBlank(text) THEN <<>>
  ELSE IF fails THEN <<>>
  ELSE LET el == Indices(H.vs, f, 1)
           ranked == SortDesc([j \in 1..Len(el) |-> <<Ref("vs", el[j]), sim[el[j]]>>])
       IN  SelectSeq(Take(ranked, k), LAMBDA p : p[2] >= thr)

\* ---------------------------------------------------------- query processor
\* _normalize_query: lower(), strip(), ' '.join(split())
_normalize_query(q) == LowerText(Split(q))

\* _extract_key_terms: drop stopwords and terms of at most two characters
_extract_key_terms(n) ==
  SelectSeq(n, LAMBDA t : t \notin Stopwords /\ t \notin ShortWords)

\* _preprocess_query with query_expansion off (the RetrievalConfig default):
\* the expanded text is the normalized text
_preprocess_query(q) ==
  [ original |-> q,
    normalized |-> _normalize_query(q),
    expanded |-> _normalize_query(q),
    terms |-> _extract_key_terms(_normalize_query(q)) ]

\* the expansion rules of _expand_query, in the order of the dict
Expansions ==
  << <<"noise", <<"noise", "loud", "sound", "music", "construction">> >>,
     <<"water", <<"water", "leak", "plumbing", "pipe", "flooding">> >>,
     <<"heat", <<"heat", "heating", "hot water", "boiler", "radiator">> >>,
     <<"parking", <<"parking", "car", "vehicle", "meter", "permit">> >>,
     <<"trash", <<"trash", "garbage", "waste", "sanitation", "pickup">> >>,
     <<"street", <<"street", "road", "sidewalk", "pothole", "pavement">> >> >>

\* RetrievalConfig.max_query_terms
max_query_terms == 10

RECURSIVE ExpandedTerms(_, _)
ExpandedTerms(n, i) ==
  IF i > Len(Expansions) THEN <<>>
  ELSE (IF InText(Expansions[i][1], n) THEN Expansions[i][2] ELSE <<>>)
         \o ExpandedTerms(n, i + 1)

Reverse(s) == [i \in 1..Len(s) |-> s[Len(s) + 1 - i]]

\* the orders in which list(set(expanded_terms)) may list the terms (it is
\* the iteration order of a set of strings, which changes from one process
\* to the next); two of them are explored
TermOrders == { "listed", "reversed" }

\* _expand_query: the query followed by at most max_query_terms of the
\* synonyms of every key found in it
_expand_query(n, order) ==
  LET terms == ExpandedTerms(n, 1)
      unique == IF order = "listed" THEN terms ELSE Reverse(terms)
  IN  IF terms = <<>> THEN n ELSE n \o Take(unique, max_query_terms)

\* _preprocess_query under config.query_expansion = expansion
Preprocess(q, expansion, order) ==
  [ original |-> q,
    normalized |-> _normalize_query(q),
    expanded |-> IF expansion THEN _expand_query(_normalize_query(q), order)
                 ELSE _normalize_query(q),
    terms |-> _extract_key_terms(_normalize_query(q)) ]

NoFilter == [key \in {} |-> ""]

Boroughs == <<"manhattan", "brooklyn", "queens", "bronx", "staten island">>

Upper(w) ==
  CASE w = "manhattan" -> "MANHATTAN"
    [] w = "brooklyn" -> "BROOKLYN"
    [] w = "queens" -> "QUEENS"
    [] w = "bronx" -> "BRONX"
    [] w = "staten island" -> "STATEN ISLAND"
    [] OTHER -> w

\* "borough in query_text": a borough name of two words matches two
\* neighbouring tokens
BoroughInText(b, t) ==
  IF b = "staten island"
  THEN \E i \in 1..(Len(t) - 1) : t[i] = "staten" /\ t[i + 1] = "island"
  ELSE InText(b, t)

\* _extract_query_filters
_extract_query_filters(pq) ==
  LET t == pq.normalized
      found == { i \in 1..Len(Boroughs) : BoroughInText(Boroughs[i], t) }
      first == CHOOSE i \in found : \A j \in found : i <= j
      hasStatus == InText("open", t) \/ InText("closed", t)
      keys == (IF found # {} THEN {"borough"} ELSE {})
              \cup (IF hasStatus THEN {"status"} ELSE {})
  IN  [ key \in keys |->
          IF key = "borough" THEN Upper(Boroughs[first])
          ELSE IF InText("open", t) THEN "Open" ELSE "Closed" ]

\* {**a, **b}: the entries of b override those of a
DictMerge(a, b) ==
  [ key \in (DOMAIN a) \cup (DOMAIN b) |->
      IF key \in DOMAIN b THEN b[key] ELSE a[key] ]

\* combined_filters = {**(filters or {}), **implicit_filters}
CombineFilters(filters, implicit) == DictMerge(filters, implicit)

\* ------------------------------------------------------ retrieval strategies
\* _vector_retrieval: [H |-> stores after tagging, out |-> references]
_vector_retrieval(H, has, pq, f, c, sim, fails) ==
  IF ~has THEN [H |-> H, out |-> <<>>]
  ELSE LET results == search_similar_documents(H, has, pq.expanded, c.k * 2,
                                               c.score_threshold, f, sim, fails)
       IN  [H |-> TagAll(H, results, "vector"), out |-> Firsts(results)]

\* a score of term presence: 1 / len(text_terms) for a term that occurs
RECURSIVE _calculate_keyword_score_presence(_, _)
_calculate_keyword_score_presence(text, terms) ==
  IF terms = <<>> THEN 0
  ELSE (IF Count(text, Head(terms)) > 0 THEN UNIT \div Len(text) ELSE 0)
       + _calculate_keyword_score_presence(text, Tail(terms))

\* _calculate_keyword_score: sum of tf / len(text_terms) over the query terms
RECURSIVE _calculate_keyword_score(_, _)
_calculate_keyword_score(text, terms) ==
  IF terms = <<>> THEN 0
  ELSE LET tf == Count(text, Head(terms))
       IN  (IF tf > 0 THEN (tf * UNIT) \div Len(text) ELSE 0)
           + _calculate_keyword_score(text, Tail(terms))

RECURSIVE KeywordScored(_, _, _)
KeywordScored(ds, terms, i) ==
  IF i > Len(ds) THEN <<>>
  ELSE LET score == _calculate_keyword_score(LowerText(Split(ds[i].content)), terms)
       IN  (IF score > 0 THEN << <<Ref("docs", i), score>> >> ELSE <<>>)
           \o KeywordScored(ds, terms, i + 1)

\* _keyword_retrieval: the filters are not used
_keyword_retrieval(H, pq, f, c) ==
  IF pq.terms = <<>> THEN [H |-> H, out |-> <<>>]
  ELSE IF H.docs = <<>> THEN [H |-> H, out |-> <<>>]
  ELSE LET scored == KeywordScored(H.docs, pq.terms, 1)
       IN  [ H |-> TagAll(H, scored, "keyword"),
             out |-> Firsts(Take(SortDesc(scored), c.k * 2)) ]

\* metadata.get('retrieval_score', 0.0)
GetScore(d) == IF d.retrieval_score = ABSENT THEN 0 ELSE d.retrieval_score

HasKey(entries, key) == \E i \in 1..Len(entries) : entries[i].key = key

\* doc_scores[hash(content)] = {...}: a new key is appended, an old key keeps
\* its place and gets the new value
RECURSIVE AddVectorScores(_, _, _)
AddVectorScores(H, entries, vdocs) ==
  IF vdocs = <<>> THEN entries
  ELSE LET r == Head(vdocs)
           e == [ key |-> Deref(H, r).content, document |-> r,
                  vector_score |-> GetScore(Deref(H, r)), keyword_score |-> 0 ]
           next == IF HasKey(entries, e.key)
                   THEN [i \in 1..Len(entries) |->
                           IF entries[i].key = e.key THEN e ELSE entries[i]]
                   ELSE Append(entries, e)
       IN  AddVectorScores(H, next, Tail(vdocs))

RECURSIVE AddKeywordScores(_, _, _)
AddKeywordScores(H, entries, kdocs) ==
  IF kdocs = <<>> THEN entries
  ELSE LET r == Head(kdocs)
           key == Deref(H, r).content
           ks == GetScore(Deref(H, r))
           next == IF HasKey(entries, key)
                   THEN [i \in 1..Len(entries) |->
                           IF entries[i].key = key
                           THEN [entries[i] EXCEPT !.keyword_score = ks]
                           ELSE entries[i]]
                   ELSE Append(entries, [ key |-> key, document |-> r,
                                          vector_score |-> 0, keyword_score |-> ks ])
       IN  AddKeywordScores(H, next, Tail(kdocs))

\* weights are tenths: vector_score * vector_weight + keyword_score * keyword_weight
CombinedScore(e, vw, kw) == (e.vector_score * vw + e.keyword_score * kw) \div 10

RECURSIVE TagHybrid(_, _, _, _)
TagHybrid(H, entries, vw, kw) ==
  IF entries = <<>> THEN H
  ELSE LET e == Head(entries)
           r == e.document
           H1 == Sync([H EXCEPT ![r[1]][r[2]].retrieval_score = CombinedScore(e, vw, kw),
                                ![r[1]][r[2]].retrieval_method = "hybrid",
                                ![r[1]][r[2]].vector_score = e.vector_score,
                                ![r[1]][r[2]].keyword_score = e.keyword_score], r)
       IN  TagHybrid(H1, Tail(entries), vw, kw)

\* _combine_retrieval_results
_combine_retrieval_results(H, vdocs, kdocs, vw, kw) ==
  LET entries == AddKeywordScores(H, AddVectorScores(H, <<>>, vdocs), kdocs)
      pairs == [i \in 1..Len(entries) |->
                  <<entries[i].document, CombinedScore(entries[i], vw, kw)>>]
  IN  [H |-> TagHybrid(H, entries, vw, kw), out |-> Firsts(SortDesc(pairs))]

\* _hybrid_retrieval
_hybrid_retrieval(H, has, pq, f, c, sim, fails) ==
  LET v == _vector_retrieval(H, has, pq, f, c, sim, fails)
      kr == _keyword_retrieval(v.H, pq, f, c)
  IN  _combine_retrieval_results(kr.H, v.out, kr.out,
                                 c.vector_weight, c.keyword_weight)

\* the text _vector_retrieval searches with:
\* processed_query.get('expanded', processed_query.get('normalized', ''))
SearchText(pq) == pq.expanded

\* the query the second search of _semantic_expansion_retrieval is given
ExpandedQuery(pq) == [pq EXCEPT !.normalized = pq.expanded]

\* a semantic expansion that searches twice whatever the first search found
SemanticExpansion_always_twice(H, has, pq, f, c, sim1, fails1, sim2, fails2) ==
  LET first == _vector_retrieval(H, has, pq, f, c, sim1, fails1)
      second == _vector_retrieval(first.H, has, ExpandedQuery(pq), f, c, sim2, fails2)
      fresh == SelectSeq(second.out, LAMBDA r :
                 ~ \E i \in 1..Len(first.out) :
                     Deref(second.H, first.out[i]).content = Deref(second.H, r).content)
  IN  [ H |-> second.H, out |-> first.out \o fresh,
        first |-> first.out, second |-> second.out, after_first |-> first.H,
        searches |-> IF has THEN <<SearchText(pq), SearchText(ExpandedQuery(pq))>>
                     ELSE <<>> ]

\* _semantic_expansion_retrieval with the two searches told apart: sim1,
\* fails1 belong to the first search and sim2, fails2 to the second.
\* searches lists the texts handed to search_similar_documents, first and
\* second the documents each search gave.
SemanticExpansion(H, has, pq, f, c, sim1, fails1, sim2, fails2) ==
  LET first == _vector_retrieval(H, has, pq, f, c, sim1, fails1)
      second == _vector_retrieval(first.H, has, ExpandedQuery(pq), f, c, sim2, fails2)
      fresh == SelectSeq(second.out, LAMBDA r :
                 ~ \E i \in 1..Len(first.out) :
                     Deref(second.H, first.out[i]).content = Deref(second.H, r).content)
  IN  IF Len(first.out) >= c.k
      THEN [ H |-> first.H, out |-> first.out, first |-> first.out, second |-> <<>>,
             after_first |-> first.H,
             searches |-> IF has THEN <<SearchText(pq)>> ELSE <<>> ]
      ELSE [ H |-> second.H, out |-> first.out \o fresh,
             first |-> first.out, second |-> second.out, after_first |-> first.H,
             searches |-> IF has THEN <<SearchText(pq), SearchText(ExpandedQuery(pq))>>
                          ELSE <<>> ]

\* _semantic_expansion_retrieval: both searches read processed_query['expanded']
_semantic_expansion_retrieval(H, has, pq, f, c, sim, fails) ==
  LET r == SemanticExpansion(H, has, pq, f, c, sim, fails, sim, fails)
  IN  [H |-> r.H, out |-> r.out]

\* ------------------------------------------------------------ post-processing
\* _calculate_rerank_score: base score + type bonus + risk bonus
_calculate_rerank_score(q, d) ==
  LET words == LowerText(Split(q))
      type_bonus == IF \E i \in 1..Len(words) : IsSubstr(words[i], Lower(d.complaint_type))
                    THEN TypeBonus ELSE 0
      risk_bonus == IF d.risk_score # ABSENT /\ d.risk_score # 0 /\ d.risk_score > HighRisk
                    THEN RiskBonus ELSE 0
  IN  GetScore(d) + type_bonus + risk_bonus

RECURSIVE TagRerank(_, _, _)
TagRerank(H, q, refs) ==
  IF refs = <<>> THEN H
  ELSE LET r == Head(refs)
       IN  TagRerank(Sync([H EXCEPT ![r[1]][r[2]].rerank_score =
                                        _calculate_rerank_score(q, Deref(H, r))], r),
                     q, Tail(refs))

\* _rerank_documents: stable sort by descending rerank score
_rerank_documents(H, q, refs) ==
  IF refs = <<>> THEN [H |-> H, out |-> refs]
  ELSE LET H1 == TagRerank(H, q, refs)
           pairs == [i \in 1..Len(refs) |-> <<refs[i], Deref(H1, refs[i]).rerank_score>>]
       IN  [H |-> H1, out |-> Firsts(SortDesc(pairs))]

WordSet(d) == SeqToSet(LowerText(Split(d.content)))

\* _are_documents_similar: same type, same borough and Jaccard similarity of
\* the word sets above the threshold (thr10 is the threshold in tenths)
_are_documents_similar(d1, d2, thr10) ==
  /\ d1.complaint_type = d2.complaint_type
  /\ d1.borough = d2.borough
  /\ WordSet(d1) # {}
  /\ WordSet(d2) # {}
  /\ 10 * Cardinality(WordSet(d1) \cap WordSet(d2))
       > thr10 * Cardinality(WordSet(d1) \cup WordSet(d2))

\* the loop of _ensure_diversity over documents[1:]
RECURSIVE DiversityLoop(_, _, _, _)
DiversityLoop(H, diverse, rest, c) ==
  IF rest = <<>> THEN diverse
  ELSE LET doc == Head(rest)
           is_diverse == ~ \E i \in 1..Len(diverse) :
                             _are_documents_similar(Deref(H, doc), Deref(H, diverse[i]),
                                                    c.diversity_threshold)
           next == IF is_diverse THEN Append(diverse, doc) ELSE diverse
       IN  IF Len(next) >= c.k THEN next
           ELSE DiversityLoop(H, next, Tail(rest), c)

\* a diversity filter seeded with the second document
_ensure_diversity_second(H, refs, c) ==
  IF Len(refs) <= 1 THEN refs
  ELSE DiversityLoop(H, <<refs[2]>>, Tail(Tail(refs)), c)

\* _ensure_diversity: seeded with documents[0]
_ensure_diversity(H, refs, c) ==
  IF Len(refs) <= 1 THEN refs
  ELSE DiversityLoop(H, <<refs[1]>>, Tail(refs), c)

\* -------------------------------------------------------------------- retrieve
Strategies == { "vector_only", "hybrid", "keyword_only", "semantic_expansion" }

\* stages of retrieve at whose entry a collaborator may raise an Exception
FaultStages == { "preprocess", "strategy", "rerank", "diversify" }

\* a retrieve whose try block began only after the strategy branch
ExceptionEscapes_postprocess(stage) == stage \in { "preprocess", "strategy" }

\* "except Exception" of retrieve covers the whole pipeline: no stage's
\* exception escapes to the caller
ExceptionEscapes(stage) == FALSE

\* a retrieve without its final slice
Truncate_none(refs, c) == refs

\* documents[:self.config.k]
Truncate(refs, c) == Take(refs, c.k)

\* Steps 3 of retrieve: the strategy branch
Dispatch(H, has, c, rs, pq, f, sim, fails) ==
  CASE rs = "vector_only" -> _vector_retrieval(H, has, pq, f, c, sim, fails)
    [] rs = "hybrid" -> _hybrid_retrieval(H, has, pq, f, c, sim, fails)
    [] rs = "keyword_only" -> _keyword_retrieval(H, pq, f, c)
    [] rs = "semantic_expansion" ->
         _semantic_expansion_retrieval(H, has, pq, f, c, sim, fails)

NoIds == <<>>

\* The outcome of one retrieve call.  docs: the returned documents (with the
\* metadata they carry on return); H: the stores after the call; raised: an
\* exception reached the caller; invoked: a strategy branch was entered;
\* failed: the stage that raised, or "none"; the remaining fields record the
\* filters and the output of each stage (as document ids).
Outcome(docs, H, failed, invoked, rs, filters, implicit, combined, so, ro, dout) ==
  [ op |-> "retrieve", docs |-> docs, H |-> H,
    raised |-> (failed # "none" /\ ExceptionEscapes(failed)),
    failed |-> failed, invoked |-> invoked, strategy |-> rs, filters |-> filters,
    implicit |-> implicit, combined |-> combined,
    strategy_out |-> so, diversity_in |-> ro, diversity_out |-> dout ]

\* Step 4 of retrieve once reranking is done: diversity filter, truncation
\* and return.  st, rr, dv: the outcomes of the strategy, of reranking and of
\* the diversity filter.
Finish(rs, filters, implicit, combined, c, st, rr, dv) ==
  Outcome(Snap(rr.H, Truncate(dv, c)), rr.H, "none", TRUE, rs, filters, implicit,
          combined, Ids(Snap(st.H, st.out)), Ids(Snap(rr.H, rr.out)),
          Ids(Snap(rr.H, dv)))

PostProcess(rs, filters, implicit, combined, c, fault, st, rr) ==
  IF fault = "rerank" /\ c.rerank
  THEN Outcome(<<>>, st.H, fault, TRUE, rs, filters, implicit,
               combined, Ids(Snap(st.H, st.out)), NoIds, NoIds)
  ELSE IF fault = "diversify"
  THEN Outcome(<<>>, rr.H, fault, TRUE, rs, filters, implicit,
               combined, Ids(Snap(st.H, st.out)), Ids(Snap(rr.H, rr.out)), NoIds)
  ELSE Finish(rs, filters, implicit, combined, c, st, rr,
              _ensure_diversity(rr.H, rr.out, c))

\* a retrieve that filters for diversity first and reranks what is left
AfterStrategy_diversity_first(rs, filters, implicit, combined, c, q, fault, st) ==
  IF fault \in {"rerank", "diversify"}
  THEN PostProcess(rs, filters, implicit, combined, c, fault, st,
                   IF c.rerank THEN _rerank_documents(st.H, q, st.out) ELSE st)
  ELSE LET dv == _ensure_diversity(st.H, st.out, c)
           rr == IF c.rerank THEN _rerank_documents(st.H, q, dv)
                 ELSE [H |-> st.H, out |-> dv]
       IN  Outcome(Snap(rr.H, Truncate(rr.out, c)), rr.H, "none", TRUE, rs, filters,
                   implicit, combined, Ids(Snap(st.H, st.out)),
                   Ids(Snap(st.H, st.out)), Ids(Snap(st.H, dv)))

AfterStrategy(rs, filters, implicit, combined, c, q, fault, st) ==
  PostProcess(rs, filters, implicit, combined, c, fault, st,
              IF c.rerank THEN _rerank_documents(st.H, q, st.out) ELSE st)

AfterFilters(H, has, rs, filters, implicit, combined, c, q, pq, sim, fault) ==
  IF fault = "strategy"
  THEN Outcome(<<>>, H, fault, TRUE, rs, filters, implicit,
               combined, NoIds, NoIds, NoIds)
  ELSE AfterStrategy(rs, filters, implicit, combined, c, q, fault,
                     Dispatch(H, has, c, rs, pq, combined, sim, fault = "search"))

AfterPreprocess(H, has, rs, filters, implicit, c, q, pq, sim, fault) ==
  AfterFilters(H, has, rs, filters, implicit, CombineFilters(filters, implicit),
               c, q, pq, sim, fault)

\* ComplaintRetriever.retrieve(query, filters, strategy).  strategy "none" is
\* the default argument; fault names the stage that raises, or "none", or
\* "search" for a failure inside search_similar_documents (caught there).
\* The steps of the try block follow one another in the operators above.
retrieve(H, has, c, q, filters, strategy, sim, fault) ==
  LET rs == IF strategy = "none" THEN c.strategy ELSE strategy
      pq == _preprocess_query(q)
  IN
  IF IsBlank(q)
  THEN Outcome(<<>>, H, "none", FALSE, rs, filters, NoFilter, NoFilter,
               NoIds, NoIds, NoIds)
  ELSE IF fault = "preprocess"
  THEN Outcome(<<>>, H, fault, FALSE, rs, filters, NoFilter,
               NoFilter, NoIds, NoIds, NoIds)
  ELSE AfterPreprocess(H, has, rs, filters, _extract_query_filters(pq), c, q, pq,
                       sim, fault)

\* The documents _vector_retrieval gives for the inputs of a retrieve call
\* (what the vector-only branch of the same call would hand to step 4).
VectorOnlyOut(H, has, c, q, filters, sim, fault) ==
  IF IsBlank(q) \/ fault \in {"preprocess", "strategy"} THEN NoIds
  ELSE LET pq == _preprocess_query(q)
           combined == CombineFilters(filters, _extract_query_filters(pq))
           v == _vector_retrieval(H, has, pq, combined, c, sim, fault = "search")
       IN  Ids(Snap(v.H, v.out))

\* content and score of the documents a branch hands over
Scored(H, refs) ==
  [i \in 1..Len(refs) |->
     [content |-> Deref(H, refs[i]).content, score |-> GetScore(Deref(H, refs[i]))]]

NoFusion == [v |-> <<>>, k |-> <<>>, out |-> <<>>]

\* For a hybrid call: what _vector_retrieval and _keyword_retrieval each give
\* for the inputs of the call, as they return it, and what _hybrid_retrieval
\* then hands to step 4.
HybridBranches(H, has, c, q, filters, strategy, sim, fault) ==
  IF strategy # "hybrid" \/ IsBlank(q) \/ fault \in {"preprocess", "strategy"}
  THEN NoFusion
  ELSE LET pq == _preprocess_query(q)
           combined == CombineFilters(filters, _extract_query_filters(pq))
           v == _vector_retrieval(H, has, pq, combined, c, sim, fault = "search")
           kr == _keyword_retrieval(H, pq, combined, c)
           h == _hybrid_retrieval(H, has, pq, combined, c, sim, fault = "search")
       IN  [v |-> Scored(v.H, v.out), k |-> Scored(kr.H, kr.out),
            out |-> Scored(h.H, h.out)]

\* ------------------------------------------------------------------ the state
VARIABLES
  cfg,            \* RetrievalConfig of the retriever
  aliased,        \* Document(metadata=m) keeps m itself (see Sync)
  disk,           \* what is persisted at the vector store path
  has_store,      \* VectorStoreManager.vector_store is not None
  vector_store,   \* the documents held by the FAISS index
  documents,      \* VectorStoreManager.documents
  call,           \* the last retrieve call and its outcome
  an,             \* one run of ComplaintAnalysisChain.analyze_complaint
  rn,             \* one run of LangChainRunner / main
  cl              \* one call of an OpenAIClient generate_* method

vars == <<cfg, aliased, disk, has_store, vector_store, documents, call, an, rn, cl>>

NoCall == [op |-> "none"]
\* no sidecar file next to the path
NoSidecar ==
  [ present |-> FALSE, readable |-> FALSE, documents |-> <<>>,
    document_count |-> 0, embedding_dimension |-> 0 ]

\* no completed save describes the files
NoOrigin == [valid |-> FALSE, vs |-> <<>>, docs |-> <<>>]

\* nothing is persisted at the path
NoDisk == [exists |-> FALSE, index |-> <<>>, sidecar |-> NoSidecar, origin |-> NoOrigin]

\* no manager operation has run in this process
NoStoreCall == [op |-> "none", ok |-> FALSE, installed |-> FALSE, fresh |-> FALSE]
Idle == [pc |-> "idle"]

\* RetrievalConfig: the dataclass defaults, with k, rerank, the weights (in
\* tenths) and the diversity threshold (in tenths) chosen at construction
Configs ==
  [ strategy : {"vector_only"}, k : 0..MaxK, score_threshold : {0},
    rerank : BOOLEAN, vector_weight : {7, 10}, keyword_weight : {3, 0},
    diversity_threshold : {1} ]

Queries ==
  { <<>>, <<WS>>,
    <<"Noise", WS, "brooklyn">>,
    <<"open", "water">>,
    <<"loud", "noise", "in", "queens">> }

CallerFilters ==
  { NoFilter, [key \in {"borough"} |-> "QUEENS"], [key \in {"status"} |-> "Open"] }

RetrieverInit ==
  /\ cfg \in { c \in Configs : c.vector_weight + c.keyword_weight = 10 }
  /\ aliased \in BOOLEAN
  /\ disk = NoDisk
  /\ has_store = FALSE
  /\ vector_store = <<>>
  /\ documents = <<>>
  /\ call = NoCall
  /\ an = Idle /\ rn = Idle /\ cl = Idle

\* the retriever is not constructed
NoRetriever ==
  /\ cfg = [k |-> 0] /\ has_store = FALSE /\ vector_store = <<>> /\ documents = <<>>
  /\ aliased = FALSE /\ disk = NoDisk
  /\ call = NoCall

\* VectorStoreManager.create_vector_store_from_documents(docs); embedOk: the
\* embedding calls and FAISS.from_embeddings did not raise.  The index is
\* (re)built before the retrieve call: a rebuild after it leads to the states
\* a build before it leads to.
Build(docs, embedOk) ==
  /\ call.op = "none"
  /\ IF docs # <<>> /\ embedOk
     THEN /\ has_store' = TRUE
          /\ vector_store' = docs
          /\ documents' = docs
          /\ call' = NoCall
     ELSE UNCHANGED <<has_store, vector_store, documents, call>>
  /\ UNCHANGED <<cfg, aliased, disk, an, rn, cl>>

\* The stores and the call record after a retrieve call with outcome r.
Returns(r, q, vout, fusion) ==
  /\ call' = [r EXCEPT !.H = "stored"]
              @@ [query |-> q, vector_out |-> vout, fusion |-> fusion]
  /\ vector_store' = r.H.vs
  /\ documents' = r.H.docs

\* One retrieve call on the stores as built.
Retrieve(q, filters, strategy, sim, fault) ==
  /\ call.op = "none"
  /\ Returns(retrieve([vs |-> vector_store, docs |-> documents, aliased |-> aliased], has_store, cfg,
                      q, filters, strategy, sim, fault),
             q,
             VectorOnlyOut([vs |-> vector_store, docs |-> documents, aliased |-> aliased], has_store,
                           cfg, q, filters, sim, fault),
             HybridBranches([vs |-> vector_store, docs |-> documents, aliased |-> aliased],
                            has_store, cfg, q, filters, strategy, sim, fault))
  /\ UNCHANGED <<cfg, aliased, disk, has_store, an, rn, cl>>

Sims == [1..Len(vector_store) -> SimScores]

\* a similarity function that stands for all of them where none is read
AnySim == [i \in 1..Len(vector_store) |-> UNIT \div 2]

\* The inputs explored.  Inputs that differ only in a value the call never
\* reads are one input (the similarities when no search runs, the strategy of
\* a blank query, a rerank fault when reranking is off, the weights of a
\* strategy other than hybrid); a call in which a
\* stage raises is explored with one similarity function.  A build whose
\* documents share their metadata mappings is explored where two branches
\* write the metadata of one document, which is the hybrid strategy.
Relevant(q, strategy, sim, fault) ==
  /\ aliased => (strategy = "hybrid" /\ fault \in {"none", "search"})
  /\ strategy # "hybrid" => cfg.vector_weight = 7
  /\ IsBlank(q) => (strategy = "none" /\ fault = "none")
  /\ (IsBlank(q) \/ strategy = "keyword_only" \/ fault # "none") => sim = AnySim
  /\ fault = "rerank" => cfg.rerank
  /\ fault = "search" => strategy # "keyword_only"

\* the strategy argument: absent (the configured vector_only) or an override
StrategyArgs == {"none", "hybrid", "keyword_only", "semantic_expansion"}

RetrieverNext ==
  \/ /\ call.op = "none"
     /\ \E docs \in DocLists(MaxDocs), embedOk \in BOOLEAN : Build(docs, embedOk)
  \/ \E q \in Queries, strategy \in StrategyArgs,
        fault \in FaultStages \cup {"none", "search"}, sim \in Sims :
       /\ call.op = "none"
       /\ Relevant(q, strategy, sim, fault)
       /\ \E filters \in CallerFilters : Retrieve(q, filters, strategy, sim, fault)

Spec == RetrieverInit /\ [][RetrieverNext]_vars

\* ====================================================== keyword scoring
\* _keyword_retrieval applied to a manager's document list whose contents
\* are drawn from a small vocabulary, for a query of one word.
Vocabulary == { "water", "Water", "leak" }
Contents == UNION { [1..n -> Vocabulary] : n \in 0..MaxTokens }
QueryWords == { "water", "Water", "leak", "in" }

KeywordConfig(k) ==
  [ k |-> k, score_threshold |-> 0, vector_weight |-> 7, keyword_weight |-> 3,
    diversity_threshold |-> 1, strategy |-> "keyword_only", rerank |-> FALSE ]

KeywordDocs ==
  { <<>> } \cup { << Doc(1, c, "BROOKLYN", "Open", "Water", ABSENT) >> : c \in Contents }
  \cup { << Doc(1, c1, "BROOKLYN", "Open", "Water", ABSENT),
            Doc(2, c2, "QUEENS", "Open", "Water", ABSENT) >> : c1, c2 \in Contents }

KeywordInit ==
  /\ cfg \in { KeywordConfig(k) : k \in 0..1 }
  /\ documents \in KeywordDocs
  /\ call \in { [op |-> "query", query |-> <<w>>] : w \in QueryWords }
  /\ has_store = FALSE /\ vector_store = <<>> /\ aliased = FALSE /\ disk = NoDisk
  /\ an = Idle /\ rn = Idle /\ cl = Idle

\* _keyword_retrieval(processed_query, filters) on the manager's documents
KeywordSearch ==
  /\ call.op = "query"
  /\ LET pq == _preprocess_query(call.query)
         r == _keyword_retrieval([vs |-> <<>>, docs |-> documents, aliased |-> FALSE],
                                 pq, NoFilter, cfg)
     IN  /\ call' = [ op |-> "keyword", query |-> call.query, terms |-> pq.terms,
                      before |-> documents, docs |-> Snap(r.H, r.out) ]
         /\ documents' = r.H.docs
  /\ UNCHANGED <<cfg, aliased, disk, has_store, vector_store, an, rn, cl>>

KeywordNext == KeywordSearch

KeywordSpec == KeywordInit /\ [][KeywordNext]_vars

\* ------------------------------------------------------------ reranking alone
RerankQueries ==
  { <<"Noise", WS, "brooklyn">>, <<"water", "leak">>, <<"what", "is", "leaking">>,
    <<"loud">> }

\* the retrieval score a strategy left on a document
WithScore(d, s) == [d EXCEPT !.retrieval_score = s]

\* the lists reranking is given: pool documents as a strategy hands them on,
\* each with a retrieval score (or, for a document no strategy tagged, none)
RerankInputs ==
  UNION { { [i \in 1..Len(ds) |-> WithScore(ds[i], ss[i])] :
              ss \in [1..Len(ds) -> SimScores \cup {ABSENT}] } :
          ds \in DocLists(MaxDocs) }

RerankInit ==
  /\ cfg = [k |-> 0]
  /\ vector_store \in RerankInputs
  /\ has_store = TRUE
  /\ documents = <<>>
  /\ call \in { [op |-> "query", query |-> q] : q \in RerankQueries }
  /\ aliased = FALSE /\ disk = NoDisk
  /\ an = Idle /\ rn = Idle /\ cl = Idle

\* _rerank_documents(original_query, documents) on the documents of the index
Rerank ==
  /\ call.op = "query"
  /\ LET H == [vs |-> vector_store, docs |-> documents, aliased |-> FALSE]
         r == _rerank_documents(H, call.query,
                                [i \in 1..Len(vector_store) |-> Ref("vs", i)])
     IN  /\ call' = [ op |-> "rerank", query |-> call.query, before |-> vector_store,
                      docs |-> Snap(r.H, r.out) ]
         /\ vector_store' = r.H.vs
  /\ UNCHANGED <<cfg, aliased, disk, has_store, documents, an, rn, cl>>

RerankNext == Rerank

RerankSpec == RerankInit /\ [][RerankNext]_vars

\* ----------------------------------------------------- diversity filter alone
DiversityConfig(k, thr) ==
  [ k |-> k, score_threshold |-> 0, vector_weight |-> 7, keyword_weight |-> 3,
    diversity_threshold |-> thr, strategy |-> "vector_only", rerank |-> FALSE ]

\* diversity thresholds, in tenths: the default 0.1 and 0.7
DiversityThresholds == { 1, 7 }

DiversityInit ==
  /\ cfg \in { DiversityConfig(k, thr) : k \in 0..MaxK, thr \in DiversityThresholds }
  /\ vector_store \in DocLists(MaxDocs + 1)
  /\ has_store = TRUE
  /\ documents = <<>>
  /\ call = [op |-> "documents"]
  /\ aliased = FALSE /\ disk = NoDisk
  /\ an = Idle /\ rn = Idle /\ cl = Idle

\* _ensure_diversity(documents) on the documents of the index, in their order
Diversify ==
  /\ call.op = "documents"
  /\ LET H == [vs |-> vector_store, docs |-> documents, aliased |-> FALSE]
         out == _ensure_diversity(H, [i \in 1..Len(vector_store) |-> Ref("vs", i)], cfg)
     IN  call' = [ op |-> "diversify", before |-> vector_store, docs |-> Snap(H, out) ]
  /\ UNCHANGED <<cfg, aliased, disk, has_store, vector_store, documents, an, rn, cl>>

DiversityNext == Diversify

DiversitySpec == DiversityInit /\ [][DiversityNext]_vars

\* ------------------------------------------------- semantic expansion alone
ExpansionConfig(k, expansion) ==
  [ k |-> k, score_threshold |-> 0, vector_weight |-> 7, keyword_weight |-> 3,
    diversity_threshold |-> 1, strategy |-> "semantic_expansion", rerank |-> FALSE,
    query_expansion |-> expansion ]

ExpansionQueries ==
  { <<"Noise", WS, "brooklyn">>, <<"open", "water">>, <<"loud">>, <<"noise", "water">> }

\* the index is built from a list of documents, or there is none
ExpansionInit ==
  /\ cfg \in { ExpansionConfig(k, e) : k \in 0..MaxK, e \in BOOLEAN }
  /\ has_store \in BOOLEAN
  /\ documents \in DocLists(MaxDocs)
  /\ has_store = (documents # <<>>)
  /\ vector_store = documents
  /\ call \in { [op |-> "query", query |-> q] : q \in ExpansionQueries }
  /\ aliased = FALSE /\ disk = NoDisk
  /\ an = Idle /\ rn = Idle /\ cl = Idle

\* _semantic_expansion_retrieval(processed_query, filters) as retrieve calls
\* it.  The similarities of the second search are those of the first when
\* both search with one text; each search may fail on its own.
SemanticSearch(order, sim1, fails1, other, fails2) ==
  /\ call.op = "query"
  /\ (~ cfg.query_expansion => order = "listed")
  /\ LET pq == Preprocess(call.query, cfg.query_expansion, order)
         same == SearchText(ExpandedQuery(pq)) = SearchText(pq)
         sim2 == IF same THEN sim1 ELSE other
         r == SemanticExpansion([vs |-> vector_store, docs |-> documents,
                                 aliased |-> FALSE],
                                has_store, pq, _extract_query_filters(pq), cfg,
                                sim1, fails1, sim2, fails2)
     IN  /\ (same => other = sim1)
         /\ call' = [ op |-> "semantic", query |-> call.query, pq |-> pq,
                      searches |-> r.searches,
                      first |-> Snap(r.after_first, r.first),
                      second |-> Snap(r.H, r.second),
                      docs |-> Snap(r.H, r.out) ]
         /\ vector_store' = r.H.vs
         /\ documents' = r.H.docs
  /\ UNCHANGED <<cfg, aliased, disk, has_store, an, rn, cl>>

ExpansionNext ==
  \E order \in TermOrders, sim1 \in Sims, other \in Sims, fails1 \in BOOLEAN,
     fails2 \in BOOLEAN :
    SemanticSearch(order, sim1, fails1, other, fails2)

ExpansionSpec == ExpansionInit /\ [][ExpansionNext]_vars

\* ========================================================== vector store
\* VectorStoreManager and the files it keeps at vector_store_path: the FAISS
\* directory written by save_local (the index with its documents) and, next
\* to it, the sidecar <path>.metadata.pkl.  One path is modelled.
StoreLists == { s \in DocLists(MaxDocs) : \A i \in 1..Len(s) : s[i].id \in {1, 3} }

\* config.EMBEDDING_DIMENSION of the running process
Dimensions == { 1536, 3072 }

\* self.vector_store (None when has is FALSE; vs lists the documents the
\* index holds, one embedding each) and self.documents
Manager(has, vs, docs) == [has |-> has, vs |-> vs, docs |-> docs]

\* VectorStoreManager.__init__
FreshManager == Manager(FALSE, <<>>, <<>>)

\* the mapping pickled into the sidecar
Sidecar(docs, dim) ==
  [ present |-> TRUE, readable |-> TRUE, documents |-> docs,
    document_count |-> Len(docs), embedding_dimension |-> dim ]

\* open(metadata_path, 'wb') truncated the file and pickle.dump did not finish
TruncatedSidecar == [NoSidecar EXCEPT !.present = TRUE]

\* what a manager held when save_vector_store last returned True with the
\* files untouched since
Origin(m) == [valid |-> TRUE, vs |-> m.vs, docs |-> m.docs]

\* create_vector_store_from_documents(documents); ok: faiss is importable and
\* neither the embedding batches nor FAISS.from_embeddings raised
create_vector_store_from_documents(m, docs, ok) ==
  IF docs = <<>> THEN [ret |-> FALSE, m |-> m]
  ELSE IF ~ ok THEN [ret |-> FALSE, m |-> m]
  ELSE [ret |-> TRUE, m |-> Manager(TRUE, docs, docs)]

\* add_documents_to_store(documents); ok: add_texts did not raise
add_documents_to_store(m, docs, ok) ==
  IF docs = <<>> THEN [ret |-> FALSE, m |-> m]
  ELSE IF ~ m.has THEN create_vector_store_from_documents(m, docs, ok)
  ELSE IF ~ ok THEN [ret |-> FALSE, m |-> m]
  ELSE [ret |-> TRUE, m |-> Manager(TRUE, m.vs \o docs, m.docs \o docs)]

\* rebuild_index()
rebuild_index(m, ok) ==
  IF m.docs = <<>> THEN [ret |-> FALSE, m |-> m]
  ELSE create_vector_store_from_documents(m, m.docs, ok)

\* save_vector_store(); fault names the statement that raised: save_local
\* ("index"), open of the sidecar ("sidecar_open"), pickle.dump into it
\* ("sidecar_dump"), or none
SaveFaults == { "none", "index", "sidecar_open", "sidecar_dump" }

save_vector_store_count_only(m, d, dim, fault) ==
  IF ~ m.has THEN [ret |-> FALSE, d |-> d]
  ELSE IF fault = "index" THEN [ret |-> FALSE, d |-> d]
  ELSE IF fault = "sidecar_open"
  THEN [ret |-> FALSE, d |-> [d EXCEPT !.exists = TRUE, !.index = m.vs, !.origin = NoOrigin]]
  ELSE IF fault = "sidecar_dump"
  THEN [ret |-> FALSE,
        d |-> [d EXCEPT !.exists = TRUE, !.index = m.vs,
                        !.sidecar = TruncatedSidecar, !.origin = NoOrigin]]
  ELSE [ret |-> TRUE,
        d |-> [exists |-> TRUE, index |-> m.vs,
               sidecar |-> [Sidecar(<<>>, dim) EXCEPT !.document_count = Len(m.docs)],
               origin |-> Origin(m)]]

save_vector_store(m, d, dim, fault) ==
  IF ~ m.has THEN [ret |-> FALSE, d |-> d]
  ELSE IF fault = "index" THEN [ret |-> FALSE, d |-> d]
  ELSE IF fault = "sidecar_open"
  THEN [ret |-> FALSE, d |-> [d EXCEPT !.exists = TRUE, !.index = m.vs, !.origin = NoOrigin]]
  ELSE IF fault = "sidecar_dump"
  THEN [ret |-> FALSE,
        d |-> [d EXCEPT !.exists = TRUE, !.index = m.vs,
                        !.sidecar = TruncatedSidecar, !.origin = NoOrigin]]
  ELSE [ret |-> TRUE,
        d |-> [exists |-> TRUE, index |-> m.vs,
               sidecar |-> Sidecar(m.docs, dim), origin |-> Origin(m)]]

\* load_vector_store(); fault: FAISS.load_local raised ("index"), reading
\* the sidecar raised ("sidecar"), or none.  An unreadable sidecar raises in
\* pickle.load.  installed: self.vector_store was assigned.  The running
\* dimension dim is an argument the code never looks at: the recorded
\* embedding_dimension is only passed to logger.debug.
LoadFaults == { "none", "index", "sidecar" }

load_vector_store(m, d, dim, fault) ==
  IF ~ d.exists THEN [ret |-> FALSE, m |-> m, installed |-> FALSE]
  ELSE IF fault = "index" THEN [ret |-> FALSE, m |-> m, installed |-> FALSE]
  ELSE IF ~ d.sidecar.present
  THEN [ret |-> TRUE, m |-> Manager(TRUE, d.index, m.docs), installed |-> TRUE]
  ELSE IF fault = "sidecar" \/ ~ d.sidecar.readable
  THEN [ret |-> FALSE, m |-> Manager(TRUE, d.index, m.docs), installed |-> TRUE]
  ELSE [ret |-> TRUE, m |-> Manager(TRUE, d.index, d.sidecar.documents),
        installed |-> TRUE]

\* delete_vector_store(); fault: removing the directory raised ("directory",
\* the files are taken as still there), removing the sidecar raised
\* ("sidecar"), or none.  Nothing is done when the directory does not exist.
DeleteFaults == { "none", "directory", "sidecar" }

delete_vector_store(m, d, fault) ==
  IF ~ d.exists THEN [ret |-> FALSE, m |-> m, d |-> d]
  ELSE IF fault = "directory" THEN [ret |-> FALSE, m |-> m, d |-> d]
  ELSE IF fault = "sidecar" /\ d.sidecar.present
  THEN [ret |-> FALSE, m |-> m,
        d |-> [d EXCEPT !.exists = FALSE, !.index = <<>>, !.origin = NoOrigin]]
  ELSE [ret |-> TRUE, m |-> FreshManager, d |-> NoDisk]

\* search_similar_documents on a manager for the fixed query of the round
\* trip: the similarity of an indexed document to the query is a property of
\* its text.  The result is the documents found, each with its score.
FixedSim(vs) == [i \in 1..Len(vs) |-> IF vs[i].id = 3 THEN UNIT ELSE UNIT \div 2]

Search(m) ==
  LET H == [vs |-> m.vs, docs |-> m.docs, aliased |-> FALSE]
      r == search_similar_documents(H, m.has, <<"water">>, MaxK, 0, NoFilter,
                                    FixedSim(m.vs), FALSE)
  IN  [i \in 1..Len(r) |-> <<Deref(H, r[i][1]), r[i][2]>>]

TheManager == Manager(has_store, vector_store, documents)

StoreCall(op, ret, installed) ==
  [ op |-> op, ok |-> ret, installed |-> installed,
    fresh |-> (op = "load" /\ call.op = "start") ]

SetManager(m) ==
  /\ has_store' = m.has
  /\ vector_store' = m.vs
  /\ documents' = m.docs

StoreInit ==
  /\ cfg \in [embedding_dimension : Dimensions]
  /\ aliased = FALSE
  /\ disk = NoDisk
  /\ has_store = FALSE /\ vector_store = <<>> /\ documents = <<>>
  /\ call = [NoStoreCall EXCEPT !.op = "start"]
  /\ an = Idle /\ rn = Idle /\ cl = Idle

\* a new process: a fresh manager over the same files, perhaps under another
\* configured dimension
Start(dim) ==
  /\ call.op # "start"
  /\ cfg' = [embedding_dimension |-> dim]
  /\ SetManager(FreshManager)
  /\ call' = [NoStoreCall EXCEPT !.op = "start"]
  /\ UNCHANGED <<aliased, disk, an, rn, cl>>

Create(docs, ok) ==
  LET r == create_vector_store_from_documents(TheManager, docs, ok)
  IN  /\ SetManager(r.m)
      /\ call' = StoreCall("create", r.ret, FALSE)
      /\ UNCHANGED <<cfg, aliased, disk, an, rn, cl>>

\* the documents added are new to the manager
Add(docs, ok) ==
  LET r == add_documents_to_store(TheManager, docs, ok)
  IN  /\ \A i \in 1..Len(docs) :
            \A j \in 1..Len(documents) : docs[i].id # documents[j].id
      /\ Len(vector_store) + Len(docs) <= MaxDocs
      /\ SetManager(r.m)
      /\ call' = StoreCall("add", r.ret, FALSE)
      /\ UNCHANGED <<cfg, aliased, disk, an, rn, cl>>

Rebuild(ok) ==
  LET r == rebuild_index(TheManager, ok)
  IN  /\ SetManager(r.m)
      /\ call' = StoreCall("rebuild", r.ret, FALSE)
      /\ UNCHANGED <<cfg, aliased, disk, an, rn, cl>>

Save(fault) ==
  LET r == save_vector_store(TheManager, disk, cfg.embedding_dimension, fault)
  IN  /\ disk' = r.d
      /\ call' = StoreCall("save", r.ret, FALSE)
      /\ UNCHANGED <<cfg, aliased, has_store, vector_store, documents, an, rn, cl>>

Load(fault) ==
  LET r == load_vector_store(TheManager, disk, cfg.embedding_dimension, fault)
  IN  /\ SetManager(r.m)
      /\ call' = StoreCall("load", r.ret, r.installed)
      /\ UNCHANGED <<cfg, aliased, disk, an, rn, cl>>

Delete(fault) ==
  LET r == delete_vector_store(TheManager, disk, fault)
  IN  /\ SetManager(r.m)
      /\ disk' = r.d
      /\ call' = StoreCall("delete", r.ret, FALSE)
      /\ UNCHANGED <<cfg, aliased, an, rn, cl>>

StoreNext ==
  \/ \E dim \in Dimensions : Start(dim)
  \/ \E docs \in StoreLists, ok \in BOOLEAN : Create(docs, ok)
  \/ \E docs \in StoreLists, ok \in BOOLEAN : Add(docs, ok)
  \/ \E ok \in BOOLEAN : Rebuild(ok)
  \/ \E fault \in SaveFaults : Save(fault)
  \/ \E fault \in LoadFaults : Load(fault)
  \/ \E fault \in DeleteFaults : Delete(fault)

StoreSpec == StoreInit /\ [][StoreNext]_vars

\* ======================================================== analysis chain
\* The model's reply is a sequence of lines, one symbol a line: a whitespace
\* line, a markdown fence ("fence": three backticks, "fence_json": three
\* backticks and the word json), a brace, a member of a JSON object ("rs_ok":
\* "risk_score": 0.9, "rs_hi": "risk_score": 1.7, "rs_str": "risk_score":
\* "high", "cat": "category": "Noise"), a bare JSON number, or prose.
Fences == { "fence", "fence_json" }
Members == { "rs_ok", "rs_hi", "rs_neg", "rs_str", "cat" }
Prose == { "text", "emergency", "water" }
Symbols == { WS, "{", "}", "42" } \cup Fences \cup Members \cup Prose

\* str.strip()
RECURSIVE LStrip(_)
LStrip(t) == IF t # <<>> /\ Head(t) = WS THEN LStrip(Tail(t)) ELSE t

RECURSIVE RStrip(_)
RStrip(t) ==
  IF t # <<>> /\ t[Len(t)] = WS THEN RStrip(SubSeq(t, 1, Len(t) - 1)) ELSE t

Strip(t) == RStrip(LStrip(t))

\* Remove markdown code blocks if present
RemoveFence(t) ==
  IF t # <<>> /\ t[1] \in Fences
  THEN IF t[Len(t)] = "fence" THEN SubSeq(t, 2, Len(t) - 1)
       ELSE IF t[1] = "fence_json" THEN SubSeq(t, 2, Len(t) - 1)
       ELSE t
  ELSE t

FirstIndex(t, x) == CHOOSE i \in 1..Len(t) : t[i] = x /\ \A j \in 1..(i - 1) : t[j] # x
LastIndex(t, x) == CHOOSE i \in 1..Len(t) : t[i] = x /\ \A j \in (i + 1)..Len(t) : t[j] # x

\* Find JSON content if embedded in text: the slice from the first opening
\* brace to the last closing brace
ExtractBraces(t) ==
  IF "{" \in SeqToSet(t) /\ "}" \in SeqToSet(t)
  THEN SubSeq(t, FirstIndex(t, "{"), LastIndex(t, "}"))
  ELSE t

\* the value a JSON member symbol gives risk_score
RiskOf(m) ==
  CASE m = "rs_ok" -> [t |-> "num", v |-> (9 * UNIT) \div 10]
    [] m = "rs_hi" -> [t |-> "num", v |-> (17 * UNIT) \div 10]
    [] m = "rs_neg" -> [t |-> "num", v |-> 0 - (3 * UNIT) \div 10]
    [] m = "rs_str" -> [t |-> "str", v |-> 0]

RiskMembers == { "rs_ok", "rs_hi", "rs_neg", "rs_str" }

\* json.loads: an object of members, a bare number, or JSONDecodeError.
\* A repeated key keeps its last value.
json_loads(t) ==
  LET u == SelectSeq(t, LAMBDA x : x # WS)
      inner == SubSeq(u, 2, Len(u) - 1)
      rs == { i \in 1..Len(inner) : inner[i] \in RiskMembers }
      lastrs == CHOOSE i \in rs : \A j \in rs : j <= i
  IN  IF Len(u) >= 2 /\ u[1] = "{" /\ u[Len(u)] = "}"
         /\ \A i \in 1..Len(inner) : inner[i] \in Members
      THEN [ kind |-> "dict",
             risk_score |-> IF rs = {} THEN [t |-> "missing", v |-> 0]
                            ELSE RiskOf(inner[lastrs]),
             category |-> IF "cat" \in SeqToSet(inner) THEN "Noise" ELSE "missing",
             tags |-> <<>>, analysis_method |-> "missing" ]
      ELSE IF u = <<"42">> THEN [kind |-> "number"]
      ELSE [kind |-> "JSONDecodeError"]

\* _create_fallback_analysis(original_output)
_create_fallback_analysis(original) ==
  LET words == SeqToSet(original)
      risk == IF "emergency" \in words THEN (8 * UNIT) \div 10
              ELSE IF "water" \in words THEN (6 * UNIT) \div 10
              ELSE UNIT \div 2
      category == IF "emergency" \in words THEN "Public Safety"
                  ELSE IF "water" \in words THEN "Infrastructure"
                  ELSE "General"
  IN  [ kind |-> "dict", risk_score |-> [t |-> "num", v |-> risk],
        category |-> category, tags |-> <<"fallback", "needs-review">>,
        analysis_method |-> "fallback" ]

\* _validate_and_parse_json: "raise" for an empty reply, else the parsed JSON
\* or, on JSONDecodeError, the fallback structure
_validate_and_parse_json(llm_output) ==
  IF Strip(llm_output) = <<>> THEN [kind |-> "raise"]
  ELSE LET parsed == json_loads(ExtractBraces(RemoveFence(Strip(llm_output))))
       IN  IF parsed.kind = "JSONDecodeError"
           THEN _create_fallback_analysis(llm_output)
           ELSE parsed

\* a validation that takes over any number as it is
ValidatedRisk_unclamped(r) ==
  CASE r.t = "num" -> r.v
    [] r.t = "str" -> UNIT \div 2
    [] r.t = "missing" -> 0

\* max(0.0, min(1.0, float(risk_score))), 0.5 when float() raises, 0.0 when
\* the key is missing
ValidatedRisk(r) ==
  CASE r.t = "num" -> Max2(0, Min2(UNIT, r.v))
    [] r.t = "str" -> UNIT \div 2
    [] r.t = "missing" -> 0

\* the tag _validate_analysis_output writes into every result
ValidatedMethod(parsed) == "lcel_chain"

\* _validate_analysis_output(parsed_data), for a dict
_validate_analysis_output(parsed) ==
  [ risk_score |-> ValidatedRisk(parsed.risk_score),
    category |-> IF parsed.category = "missing" THEN "General" ELSE parsed.category,
    tags |-> parsed.tags,
    analysis_method |-> ValidatedMethod(parsed) ]

\* the dict analyze_complaint returns from its except branch
FallbackResult(message) ==
  LET f == _create_fallback_analysis(message)
  IN  [ risk_score |-> f.risk_score.v, category |-> f.category, tags |-> f.tags,
        analysis_method |-> f.analysis_method ]

\* ComplaintAnalysisChain.analyze_complaint: chain.invoke runs the model,
\* _validate_and_parse_json and _validate_analysis_output; any exception of
\* the chain (the model call, an empty reply, a parsed value without .get)
\* gives the fallback analysis of the error message.
analyze_complaint(llm) ==
  IF llm.raises THEN FallbackResult(<<"Analysis", "failed">>)
  ELSE LET parsed == _validate_and_parse_json(llm.output)
       IN  IF parsed.kind = "dict" THEN _validate_analysis_output(parsed)
           ELSE FallbackResult(<<"Analysis", "failed">>)

LLMOutputs == UNION { [1..n -> Symbols] : n \in 0..MaxOutLen }

AnalysisInit ==
  /\ an \in { [pc |-> "start", llm |-> [raises |-> FALSE, output |-> o]] :
                o \in LLMOutputs }
           \cup { [pc |-> "start", llm |-> [raises |-> TRUE, output |-> <<>>]] }
  /\ NoRetriever /\ rn = Idle /\ cl = Idle

Analyze ==
  /\ an.pc = "start"
  /\ an' = [ pc |-> "done", llm |-> an.llm, result |-> analyze_complaint(an.llm) ]
  /\ UNCHANGED <<cfg, aliased, disk, has_store, vector_store, documents, call, rn, cl>>

AnalysisNext == Analyze

AnalysisSpec == AnalysisInit /\ [][AnalysisNext]_vars

\* ================================================================ runner
\* langchain_runner.py logs through the standard library: logger =
\* logging.getLogger(__name__) under a root level of WARNING.  A call below
\* that level returns at once; a call at or above it reaches Logger._log,
\* which takes no keyword arguments besides exc_info, extra, stack_info and
\* stacklevel and raises TypeError for any other.
LogRaises(level, kwargs) == level \in { "warning", "error" } /\ kwargs

\* self.operations
Operations ==
  { "analyze_complaint", "answer_question", "chat", "create_embeddings",
    "create_vector_store", "search_documents", "sync_pgvector", "pgvector_search",
    "pgvector_stats", "health_check", "get_stats" }

\* choices of the operation argument of main
CliChoices ==
  { "analyze_complaint", "answer_question", "chat", "create_embeddings",
    "create_vector_store", "search_documents", "health_check", "get_stats" }

OperationNames == Operations \cup { "unknown_op" }

\* the data argument: a dict with the fields the operation needs, a dict
\* without them, JSON that is no dict, or (main only) text that is no JSON
DataKinds == { "dict_ok", "dict_missing", "non_dict", "invalid_json" }

\* what the chain, store or manager an operation calls does
Collaborators == { "ok", "raises", "interrupt" }

Null == [kind |-> "null"]
Payload == [kind |-> "payload"]
Str(msg) == [kind |-> "str", text |-> msg]

_success_response(data) == [success |-> TRUE, data |-> data, error |-> Null]
_error_response(msg) == [success |-> FALSE, data |-> Null, error |-> Str(msg)]

Nested(envelope) ==
  [kind |-> "envelope", success |-> envelope.success, error |-> envelope.error]

Return(value) == [raised |-> "none", value |-> value]
Raise(exc) == [raised |-> exc, value |-> Null]

\* the except branch of a pgvector operation: logger.error(..., error=str(e))
\* and then the error envelope
PgExcept(msg) ==
  IF LogRaises("error", TRUE) THEN Raise("TypeError")
  ELSE Return(Nested(_error_response(msg)))

\* analyze_complaint, answer_question, chat, create_embeddings,
\* create_vector_store: data.get, the required-field test, the collaborator
ChainOperation(data, collab) ==
  CASE data = "non_dict" -> Raise("AttributeError")
    [] data = "dict_missing" -> Raise("ValueError")
    [] OTHER -> CASE collab = "ok" -> Return(Payload)
                  [] collab = "raises" -> Raise("Exception")
                  [] collab = "interrupt" -> Raise("KeyboardInterrupt")

\* search_documents: complaint_retriever.retrieve raises no Exception
search_documents(data, collab) ==
  CASE data = "non_dict" -> Raise("AttributeError")
    [] data = "dict_missing" -> Raise("ValueError")
    [] OTHER -> IF collab = "interrupt" THEN Raise("KeyboardInterrupt")
                ELSE Return(Payload)

\* health_check, get_stats: data is not read, every component is probed
\* inside its own try
ProbeOperation(collab) ==
  IF collab = "interrupt" THEN Raise("KeyboardInterrupt") ELSE Return(Payload)

\* sync_pgvector, pgvector_stats
PgOperation(has_pg, collab, msg) ==
  IF ~ has_pg THEN Return(Nested(_error_response("PGVector manager not available")))
  ELSE CASE collab = "ok" -> Return(Nested(_success_response(Payload)))
         [] collab = "raises" -> PgExcept(msg)
         [] collab = "interrupt" -> Raise("KeyboardInterrupt")

pgvector_search(data, has_pg, collab) ==
  CASE data = "non_dict" -> Raise("AttributeError")
    [] ~ has_pg -> Return(Nested(_error_response("PGVector manager not available")))
    [] data = "dict_missing" -> Return(Nested(_error_response("Query text required")))
    [] OTHER -> PgOperation(has_pg, collab, "Search failed")

\* self.operations[operation](data)
Handler(operation, data, has_pg, collab) ==
  CASE operation = "search_documents" -> search_documents(data, collab)
    [] operation \in { "health_check", "get_stats" } -> ProbeOperation(collab)
    [] operation = "sync_pgvector" -> PgOperation(has_pg, collab, "Sync failed")
    [] operation = "pgvector_stats" ->
         PgOperation(has_pg, collab, "Statistics retrieval failed")
    [] operation = "pgvector_search" -> pgvector_search(data, has_pg, collab)
    [] OTHER -> ChainOperation(data, collab)

\* LangChainRunner.run(operation, data)
run(operation, data, has_pg, collab) ==
  IF operation \notin Operations
  THEN Return(_error_response("Unknown operation"))
  ELSE LET h == Handler(operation, data, has_pg, collab)
       IN  CASE h.raised = "none" -> Return(_success_response(h.value))
             [] h.raised = "KeyboardInterrupt" -> h
             [] OTHER -> IF LogRaises("error", TRUE) THEN Raise("TypeError")
                         ELSE Return(_error_response("Operation failed"))

\* LangChainRunner.__init__: the pgvector manager is kept, or, when its
\* constructor raises, logger.warning(..., error=str(e)) and then None
Construct(pg_ok) ==
  IF pg_ok THEN Return([has_pg |-> TRUE])
  ELSE IF LogRaises("warning", TRUE) THEN Raise("TypeError")
  ELSE Return([has_pg |-> FALSE])

\* The process state of one use of the runner: mode "main" is the command
\* entry point, mode "api" a caller that constructs LangChainRunner and
\* calls run itself.
RunnerStart(mode, operation, data, pg_ok, collab) ==
  [ pc |-> IF mode = "main" THEN "start" ELSE "construct",
    mode |-> mode, operation |-> operation, data |-> data, pg_ok |-> pg_ok,
    collab |-> collab, args_ok |-> FALSE, has_pg |-> FALSE, ran |-> FALSE,
    run_out |-> Return(Null), stdout |-> <<>>, exit |-> ABSENT, uncaught |-> "none" ]

RunnerInit ==
  /\ rn \in { RunnerStart(mode, operation, data, pg_ok, collab) :
                mode \in { "main", "api" }, operation \in OperationNames,
                data \in DataKinds, pg_ok \in BOOLEAN, collab \in Collaborators }
  /\ rn.mode = "api" => rn.data # "invalid_json"
  /\ NoRetriever /\ an = Idle /\ cl = Idle

\* print(json.dumps(envelope)); sys.exit(code)
PrintAndExit(r, envelope, code) ==
  [r EXCEPT !.pc = "exited", !.stdout = Append(r.stdout, envelope), !.exit = code]

\* an exception no handler of main caught: the interpreter prints the
\* traceback to stderr and exits with code 1
Uncaught(r, exc) == [r EXCEPT !.pc = "exited", !.exit = 1, !.uncaught = exc]

\* "except Exception as e" of main: logger.error("Unexpected error",
\* error=..., traceback=...), then the error envelope and sys.exit(1)
Unexpected(r) ==
  IF LogRaises("error", TRUE) THEN Uncaught(r, "TypeError")
  ELSE PrintAndExit(r, _error_response("Unexpected error"), 1)

\* "except KeyboardInterrupt" of main: logger.info(...) without keyword
\* arguments, then the envelope and sys.exit(130)
Interrupted(r) ==
  IF LogRaises("info", FALSE) THEN Uncaught(r, "TypeError")
  ELSE PrintAndExit(r, _error_response("Operation interrupted by user"), 130)

\* parser.parse_args(): an operation outside the choices ends the process
\* with the usage message on stderr and code 2
ParseArgs ==
  /\ rn.pc = "start"
  /\ rn' = IF rn.operation \in CliChoices
           THEN [rn EXCEPT !.pc = "load", !.args_ok = TRUE]
           ELSE [rn EXCEPT !.pc = "exited", !.exit = 2]
  /\ UNCHANGED <<cfg, aliased, disk, has_store, vector_store, documents, call, an, cl>>

\* json.loads(args.data) and its except json.JSONDecodeError branch, which
\* lies inside the outer try of main
LoadData ==
  /\ rn.pc = "load"
  /\ rn' = IF rn.data = "invalid_json"
           THEN IF LogRaises("error", TRUE) THEN Unexpected(rn)
                ELSE PrintAndExit(rn, _error_response("Invalid JSON data"), 1)
           ELSE [rn EXCEPT !.pc = "construct"]
  /\ UNCHANGED <<cfg, aliased, disk, has_store, vector_store, documents, call, an, cl>>

\* runner = LangChainRunner()
NewRunner ==
  /\ rn.pc = "construct"
  /\ LET c == Construct(rn.pg_ok)
     IN  rn' = IF c.raised = "none"
               THEN [rn EXCEPT !.pc = "run", !.has_pg = c.value.has_pg]
               ELSE IF rn.mode = "main" THEN Unexpected(rn)
               ELSE [rn EXCEPT !.pc = "done", !.uncaught = c.raised]
  /\ UNCHANGED <<cfg, aliased, disk, has_store, vector_store, documents, call, an, cl>>

\* result = runner.run(args.operation, input_data)
RunOperation ==
  /\ rn.pc = "run"
  /\ LET r == run(rn.operation, rn.data, rn.has_pg, rn.collab)
         ran == [rn EXCEPT !.ran = TRUE, !.run_out = r]
     IN  rn' = CASE rn.mode = "api" ->
                      [ran EXCEPT !.pc = "done", !.uncaught = r.raised]
                 [] rn.mode = "main" /\ r.raised = "none" -> [ran EXCEPT !.pc = "print"]
                 [] rn.mode = "main" /\ r.raised = "KeyboardInterrupt" -> Interrupted(ran)
                 [] OTHER -> Unexpected(ran)
  /\ UNCHANGED <<cfg, aliased, disk, has_store, vector_store, documents, call, an, cl>>

\* print(json.dumps(result, indent=2))
PrintResult ==
  /\ rn.pc = "print"
  /\ rn' = [rn EXCEPT !.pc = "exit", !.stdout = Append(rn.stdout, rn.run_out.value)]
  /\ UNCHANGED <<cfg, aliased, disk, has_store, vector_store, documents, call, an, cl>>

\* sys.exit(0 if result['success'] else 1)
Exit ==
  /\ rn.pc = "exit"
  /\ rn' = [rn EXCEPT !.pc = "exited",
                      !.exit = IF rn.run_out.value.success THEN 0 ELSE 1]
  /\ UNCHANGED <<cfg, aliased, disk, has_store, vector_store, documents, call, an, cl>>

RunnerNext ==
  \/ ParseArgs
  \/ LoadData
  \/ NewRunner
  \/ RunOperation
  \/ PrintResult
  \/ Exit

RunnerSpec == RunnerInit /\ [][RunnerNext]_vars

\* ========================================================= OpenAI client
\* what one upstream call (chat_client.invoke, embeddings_client
\* .embed_documents) does: it returns, or raises RateLimitError,
\* APITimeoutError, an APIError whose text holds "authentication" or
\* "invalid", another APIError, or another Exception
UpstreamOutcomes == { "ok", "rate_limit", "timeout", "api_permanent", "api_other", "other" }

RECURSIVE Pow2(_)
Pow2(n) == IF n <= 0 THEN 1 ELSE 2 * Pow2(n - 1)

\* one backoff for every failure
CompletionWait_plain(kind, retry_delay, attempt) == retry_delay * Pow2(attempt)

\* time.sleep argument of generate_completion after a failure it retries:
\* "Wait longer for rate limits"
CompletionWait(kind, retry_delay, attempt) ==
  IF kind = "rate_limit" THEN retry_delay * Pow2(attempt) * 2
  ELSE retry_delay * Pow2(attempt)

\* time.sleep argument of generate_embeddings after a failure it retries
EmbeddingsWait(kind, attempt) ==
  IF kind = "rate_limit" THEN Pow2(attempt) ELSE 1

\* a test that lets the last round sleep too
LastAttempt_late(attempt, max_retries) == attempt = max_retries + 1

\* "if attempt == max_retries: raise"
LastAttempt(attempt, max_retries) == attempt = max_retries

\* does generate_completion raise after this failure (else it sleeps and
\* goes round the loop)
CompletionRaises(kind, attempt, max_retries) ==
  CASE kind \in { "rate_limit", "timeout", "api_other" } -> LastAttempt(attempt, max_retries)
    [] kind \in { "api_permanent", "other" } -> TRUE

\* RateLimitError and every other Exception of generate_embeddings are
\* retried until the last attempt
EmbeddingsRaises(kind, attempt, max_retries) == LastAttempt(attempt, max_retries)

RetryDelays == { 1, 3 }

ClientStart(method, max_retries, retry_delay, empty) ==
  [ pc |-> "call", method |-> method, max_retries |-> max_retries,
    retry_delay |-> retry_delay, texts_empty |-> empty, attempt |-> 0,
    calls |-> 0, last |-> "none", waits |-> <<>>, outcome |-> "none" ]

ClientInit ==
  /\ cl \in { ClientStart("generate_completion", mr, rd, FALSE) :
                mr \in (0 - 1)..MaxRetries, rd \in RetryDelays }
           \cup { ClientStart("generate_embeddings", mr, 1, e) :
                    mr \in (0 - 1)..MaxRetries, e \in BOOLEAN }
  /\ NoRetriever /\ an = Idle /\ rn = Idle

\* entry of the method: generate_embeddings rejects an empty list
Enter ==
  /\ cl.pc = "call"
  /\ cl' = IF cl.method = "generate_embeddings" /\ cl.texts_empty
           THEN [cl EXCEPT !.pc = "done", !.outcome = "raised"]
           ELSE [cl EXCEPT !.pc = "loop"]
  /\ UNCHANGED <<cfg, aliased, disk, has_store, vector_store, documents, call, an, rn>>

\* one round of "for attempt in range(max_retries + 1)": the upstream call,
\* then return, raise, or sleep and the next round
Round(kind, raises, wait) ==
  LET called == [cl EXCEPT !.calls = cl.calls + 1, !.last = kind]
  IN  cl' = CASE kind = "ok" -> [called EXCEPT !.pc = "done", !.outcome = "returned"]
              [] kind # "ok" /\ raises -> [called EXCEPT !.pc = "done", !.outcome = "raised"]
              [] OTHER -> [called EXCEPT !.attempt = cl.attempt + 1,
                                         !.waits = Append(cl.waits,
                                            [attempt |-> cl.attempt, kind |-> kind,
                                             wait |-> wait])]

CompletionAttempt(kind) ==
  /\ cl.pc = "loop"
  /\ cl.method = "generate_completion"
  /\ cl.attempt <= cl.max_retries
  /\ Round(kind, CompletionRaises(kind, cl.attempt, cl.max_retries),
           CompletionWait(kind, cl.retry_delay, cl.attempt))
  /\ UNCHANGED <<cfg, aliased, disk, has_store, vector_store, documents, call, an, rn>>

EmbeddingsAttempt(kind) ==
  /\ cl.pc = "loop"
  /\ cl.method = "generate_embeddings"
  /\ cl.attempt <= cl.max_retries
  /\ Round(kind, EmbeddingsRaises(kind, cl.attempt, cl.max_retries),
           EmbeddingsWait(kind, cl.attempt))
  /\ UNCHANGED <<cfg, aliased, disk, has_store, vector_store, documents, call, an, rn>>

\* the range is used up: generate_completion raises after its loop,
\* generate_embeddings reaches the end of the function and returns None
LoopExhausted ==
  /\ cl.pc = "loop"
  /\ cl.attempt > cl.max_retries
  /\ cl' = [cl EXCEPT !.pc = "done",
                      !.outcome = IF cl.method = "generate_completion"
                                  THEN "raised" ELSE "returned_none"]
  /\ UNCHANGED <<cfg, aliased, disk, has_store, vector_store, documents, call, an, rn>>

ClientNext ==
  \/ Enter
  \/ \E kind \in UpstreamOutcomes : CompletionAttempt(kind)
  \/ \E kind \in UpstreamOutcomes : EmbeddingsAttempt(kind)
  \/ LoopExhausted

ClientSpec == ClientInit /\ [][ClientNext]_vars

\* the method runs on: every upstream call returns or raises (it carries a
\* request timeout) and every sleep ends
ClientFairSpec == ClientSpec /\ WF_vars(ClientNext)

\* ======================================================== filter extraction
\* "a b" in text, for a phrase of two words: two neighbouring tokens
PhraseInText(a, b, t) == \E i \in 1..(Len(t) - 1) : t[i] = a /\ t[i + 1] = b

\* the value of the first branch of an if / elif chain whose condition
\* holds; "none" when none does
RECURSIVE FirstBranch(_)
FirstBranch(branches) ==
  IF branches = <<>> THEN "none"
  ELSE IF Head(branches)[1] THEN Head(branches)[2]
  ELSE FirstBranch(Tail(branches))

\* RAGChain._extract_filters_from_question, on question.lower()
_extract_filters_from_question(question) ==
  LET t == LowerText(question)
      found == { i \in 1..Len(Boroughs) : BoroughInText(Boroughs[i], t) }
      first == CHOOSE i \in found : \A j \in found : i <= j
      value ==
        [ borough |-> IF found = {} THEN "none" ELSE Upper(Boroughs[first]),
          complaint_type |->
            FirstBranch(<< <<InText("noise", t), "noise">>,
                           <<InText("water", t), "water">>,
                           <<InText("heat", t) \/ InText("heating", t), "heat">>,
                           <<InText("parking", t), "parking">>,
                           <<InText("traffic", t), "traffic">> >>),
          status |->
            FirstBranch(<< <<InText("open", t), "open">>,
                           <<InText("closed", t), "closed">>,
                           <<InText("escalated", t), "escalated">> >>),
          risk_level |->
            FirstBranch(<< <<PhraseInText("high", "risk", t) \/ InText("dangerous", t)
                               \/ InText("urgent", t), "high">>,
                           <<PhraseInText("low", "risk", t) \/ InText("minor", t), "low">> >>),
          time_period |->
            FirstBranch(<< <<PhraseInText("last", "week", t)
                               \/ PhraseInText("past", "week", t), "last_week">>,
                           <<PhraseInText("last", "month", t)
                               \/ PhraseInText("past", "month", t), "last_month">>,
                           <<InText("today", t), "today">> >>) ]
  IN  [ key \in { c \in DOMAIN value : value[c] # "none" } |-> value[key] ]

FilterWords ==
  { "open", "Open", "closed", "escalated", "reopened", "brooklyn", "queens",
    "noise", "urgent", WS }

\* the texts filters are extracted from: the short texts over FilterWords
\* and the example of the contract
FilterTexts ==
  UNION { [1..n -> FilterWords] : n \in 0..MaxTokens }
    \cup { <<"open", "complaints", "in", "brooklyn">> }

FilterInit ==
  /\ cfg = [k |-> 0] /\ has_store = FALSE /\ vector_store = <<>> /\ documents = <<>>
  /\ aliased = FALSE /\ disk = NoDisk
  /\ call \in [op : {"text"}, text : FilterTexts]
  /\ an = Idle /\ rn = Idle /\ cl = Idle

\* the two extractions of the code base applied to one text: the
\* retriever's, on the preprocessed query, and the RAG chain's
ExtractFilters ==
  /\ call.op = "text"
  /\ call' = [ op |-> "extract", text |-> call.text,
               implicit |-> _extract_query_filters(_preprocess_query(call.text)),
               question |-> _extract_filters_from_question(call.text) ]
  /\ UNCHANGED <<cfg, aliased, disk, has_store, vector_store, documents, an, rn, cl>>

FilterNext == ExtractFilters

FilterSpec == FilterInit /\ [][FilterNext]_vars

\* ============================================================ chat sessions
\* ChatChain keeps self.sessions, a mapping from session id to the messages
\* of that session (the chat_memory of a ConversationSummaryBufferMemory).  A
\* message is a pair <<role, text>>; a text is a sequence of tokens.
SessionIds == { "s1", "s2" }
ChatMessages == { <<>>, <<WS>>, <<"hi">>, <<"status", WS>> }
Replies == { <<"hello">> }

\* the message of the error response of ChatChain.chat
Apology == <<"sorry">>

\* ChatChain.__init__: self.sessions = {}
NoSessions == [s \in {} |-> <<>>]

\* the memory of a session, created empty when the session is not there
SessionMemory(sessions, session_id) ==
  [s \in DOMAIN sessions \cup {session_id} |->
     IF s \in DOMAIN sessions THEN sessions[s] ELSE <<>>]

\* formatted_history[-6:]
LastSix(h) == IF Len(h) <= 6 THEN h ELSE SubSeq(h, Len(h) - 5, Len(h))

\* ChatChain._load_conversation_history: the session is created when it is
\* missing; the text handed to the prompt lists the last six messages
_load_conversation_history(sessions, session_id) ==
  [ sessions |-> SessionMemory(sessions, session_id),
    history |-> LastSix(SessionMemory(sessions, session_id)[session_id]) ]

\* _update_memory writing the exchange into the memory of every session
_update_memory_every_session(sessions, session_id, user_message, ai_response) ==
  [s \in DOMAIN SessionMemory(sessions, session_id) |->
     SessionMemory(sessions, session_id)[s]
       \o << <<"user", user_message>>, <<"assistant", ai_response>> >>]

\* ChatChain._update_memory: add_user_message, add_ai_message
_update_memory(sessions, session_id, user_message, ai_response) ==
  [SessionMemory(sessions, session_id) EXCEPT
     ![session_id] = @ \o << <<"user", user_message>>, <<"assistant", ai_response>> >>]

\* ChatChain.chat(message, session_id) on a chain holding sessions.  reply:
\* what the model answered; fails: self.chain.invoke raised (before or after
\* the history was loaded: loaded tells which).
ChatChain_chat(sessions, message, session_id, reply, fails, loaded) ==
  IF Strip(message) = <<>>
  THEN [ raised |-> "ValueError", sessions |-> sessions, history |-> <<>>,
         response |-> <<>>, type |-> "none" ]
  ELSE LET l == _load_conversation_history(sessions, session_id)
           s == IF loaded THEN l.sessions ELSE sessions
           h == IF loaded THEN l.history ELSE <<>>
       IN  IF fails
           THEN [ raised |-> "none",
                  sessions |-> _update_memory(s, session_id, message, Apology),
                  history |-> h, response |-> Apology, type |-> "error" ]
           ELSE [ raised |-> "none",
                  sessions |-> _update_memory(l.sessions, session_id, message, reply),
                  history |-> l.history, response |-> reply, type |-> "chat" ]

\* LangChainRunner.chat(data): a ChatChain is constructed for the call and
\* dropped when the call returns
LangChainRunner_chat(message, session_id, reply, fails, loaded) ==
  IF message = <<>>
  THEN [ raised |-> "ValueError", sessions |-> NoSessions, history |-> <<>>,
         response |-> <<>>, type |-> "none" ]
  ELSE ChatChain_chat(NoSessions, message, session_id, reply, fails, loaded)

\* an operation of the command layer as the next one sees it
ChatOp(by, session_id, message, r) ==
  [ by |-> by, session_id |-> session_id, message |-> message,
    raised |-> r.raised, response |-> r.response, history |-> r.history ]

NoChatOp ==
  [ by |-> "none", session_id |-> "none", message |-> <<>>, raised |-> "none",
    response |-> <<>>, history |-> <<>> ]

\* rn.sessions: the sessions of the module-level chat_chain instance of
\* chains/chat_chain.py; rn.last and rn.prev: the latest two chat operations
ChatInit ==
  /\ NoRetriever /\ an = Idle /\ cl = Idle
  /\ rn = [ pc |-> "chat", n |-> 0, sessions |-> NoSessions,
            last |-> NoChatOp, prev |-> NoChatOp ]

\* python langchain_runner.py chat / LangChainRunner().run('chat', data)
RunnerChat(message, session_id, reply, fails, loaded) ==
  LET r == LangChainRunner_chat(message, session_id, reply, fails, loaded)
  IN  /\ rn.n < MaxChats
      /\ (~ fails => loaded)
      /\ rn' = [rn EXCEPT !.n = @ + 1, !.prev = rn.last,
                          !.last = ChatOp("runner", session_id, message, r)]
      /\ UNCHANGED <<cfg, aliased, disk, has_store, vector_store, documents, call, an, cl>>

\* chat_chain.chat(message, session_id) on the module-level instance
ChainChat(message, session_id, reply, fails, loaded) ==
  LET r == ChatChain_chat(rn.sessions, message, session_id, reply, fails, loaded)
  IN  /\ rn.n < MaxChats
      /\ (~ fails => loaded)
      /\ rn' = [rn EXCEPT !.n = @ + 1, !.sessions = r.sessions, !.prev = rn.last,
                          !.last = ChatOp("chain", session_id, message, r)]
      /\ UNCHANGED <<cfg, aliased, disk, has_store, vector_store, documents, call, an, cl>>

ChatNext ==
  \/ \E message \in ChatMessages, session_id \in SessionIds, reply \in Replies,
        fails \in BOOLEAN, loaded \in BOOLEAN :
       RunnerChat(message, session_id, reply, fails, loaded)
  \/ \E message \in ChatMessages, session_id \in SessionIds, reply \in Replies,
        fails \in BOOLEAN, loaded \in BOOLEAN :
       ChainChat(message, session_id, reply, fails, loaded)

ChatSpec == ChatInit /\ [][ChatNext]_vars

\* ==================================================================== claims
Returned == call.op = "retrieve"

\* C1: for every configured k >= 0, every query, filter mapping, strategy and
\* index content, retrieve returns a list of at most k documents.
C1_AtMostK == Returned => Len(call.docs) <= cfg.k

\* C1 witness: the diversity filter handed over more than k documents and the
\* call returned exactly k of them.
C1_Witness ==
  /\ Returned
  /\ Len(call.diversity_out) > cfg.k
  /\ Len(call.docs) = cfg.k
  /\ cfg.k >= 1

\* C2 (as claimed): when the caller-supplied filters and the filters extracted
\* from the query hold the same key, the combined filter passed to the
\* strategy holds the caller-supplied value for that key.
C2_CallerFilterWins ==
  (Returned /\ call.invoked) =>
    \A key \in (DOMAIN call.filters) \cap (DOMAIN call.implicit) :
      call.combined[key] = call.filters[key]

\* C3: retrieve never raises to its caller; a blank query gives [] without
\* entering a strategy; an exception in preprocessing, the strategy branch,
\* reranking or diversification gives [].
C3_NeverRaises ==
  Returned =>
    /\ ~ call.raised
    /\ IsBlank(call.query) => (call.docs = <<>> /\ ~ call.invoked)
    /\ call.failed # "none" => call.docs = <<>>

\* C3 witness: reranking raised after the strategy had found documents, and
\* the call returned [] without raising.
C3_Witness ==
  /\ Returned
  /\ call.failed = "rerank"
  /\ call.strategy_out # <<>>
  /\ call.docs = <<>>
  /\ ~ call.raised

\* C4: for every non-empty input list the first element returned by
\* _ensure_diversity is the first element of its input.
C4_TopKept ==
  (Returned /\ call.failed = "none" /\ call.diversity_in # <<>>) =>
    /\ call.diversity_out # <<>>
    /\ call.diversity_out[1] = call.diversity_in[1]

\* C4 witness: the diversity filter dropped a document of a non-empty input
\* and kept the first one.
C4_Witness ==
  /\ Returned
  /\ call.failed = "none"
  /\ Len(call.diversity_in) >= 2
  /\ Len(call.diversity_out) < Len(call.diversity_in)
  /\ call.diversity_out[1] = call.diversity_in[1]

\* C5 (as claimed): with vector_weight = 1 and keyword_weight = 0 hybrid
\* retrieval returns the same documents in the same order as vector-only
\* retrieval on the same inputs.
C5_HybridEqualsVector ==
  ( /\ Returned
    /\ call.strategy = "hybrid"
    /\ call.failed = "none"
    /\ call.invoked
    /\ cfg.vector_weight = 10
    /\ cfg.keyword_weight = 0 ) =>
    call.strategy_out = call.vector_out

\* the reply is non-empty text that json.loads rejects
NonJsonText(o) ==
  /\ Strip(o) # <<>>
  /\ json_loads(ExtractBraces(RemoveFence(Strip(o)))).kind = "JSONDecodeError"

\* C6 (as claimed): a non-empty reply that cannot be parsed as JSON gives an
\* analysis with analysis_method "fallback" and a risk_score within [0, 1].
C6_FallbackTagged ==
  (an.pc = "done" /\ ~ an.llm.raises /\ NonJsonText(an.llm.output)) =>
    /\ an.result.analysis_method = "fallback"
    /\ an.result.risk_score >= 0
    /\ an.result.risk_score <= UNIT

\* success true with a payload and no error, or success false with no data
\* and an error string
WellFormed(envelope) ==
  \/ envelope.success /\ envelope.data # Null /\ envelope.error = Null
  \/ ~ envelope.success /\ envelope.data = Null /\ envelope.error.kind = "str"

\* C7 (as claimed): for every operation name and every input, when the
\* operation handler raises an exception included, run raises nothing and
\* returns a well-formed envelope {success, data, error}.
C7_RunNeverRaises ==
  (rn.pc # "idle" /\ rn.ran /\ rn.collab # "interrupt") =>
    /\ rn.run_out.raised = "none"
    /\ WellFormed(rn.run_out.value)

\* C8 (as claimed): every execution of main that got past its argument
\* parser ends with exactly one JSON envelope on standard output, and its
\* exit code is 0 exactly when that envelope's success field is true.
C8_MainAlwaysWrites ==
  (rn.pc = "exited" /\ rn.mode = "main" /\ rn.args_ok) =>
    /\ Len(rn.stdout) = 1
    /\ (rn.exit = 0) <=> rn.stdout[1].success

\* C9: a call of generate_completion or generate_embeddings with
\* max_retries >= 0 never makes more than max_retries + 1 upstream calls,
\* ends, and ends by returning the upstream result or by raising.
C9_BoundedRetries ==
  /\ [](cl.pc # "idle" /\ cl.max_retries >= 0 =>
          /\ cl.calls <= cl.max_retries + 1
          /\ cl.pc = "done" => cl.outcome \in { "returned", "raised" })
  /\ <>(cl.pc = "done")

C9_Witness ==
  /\ cl.pc = "done"
  /\ cl.max_retries >= 1
  /\ cl.calls = cl.max_retries + 1
  /\ cl.outcome = "raised"

Transient == { "timeout", "rate_limit" }

\* C10 (as claimed): the wait after a transient failure on attempt a is
\* base_delay * 2^a in both methods (generate_embeddings has no delay
\* parameter: its base is one second).
C10_ExponentialBackoff ==
  cl.pc # "idle" =>
    \A i \in 1..Len(cl.waits) :
      cl.waits[i].kind \in Transient =>
        cl.waits[i].wait = cl.retry_delay * Pow2(cl.waits[i].attempt)

\* C10 (amended): after a failure on attempt a that is not the last,
\* generate_completion waits retry_delay * 2^a after a timeout and twice
\* that after a rate limit; generate_embeddings waits 2^a seconds after a
\* rate limit and one second after a timeout.
C10_BackoffByKind ==
  cl.pc # "idle" =>
    \A i \in 1..Len(cl.waits) :
      LET w == cl.waits[i]
      IN  /\ w.attempt = i - 1
          /\ w.attempt < cl.max_retries
          /\ (cl.method = "generate_completion" /\ w.kind = "timeout") =>
               w.wait = cl.retry_delay * Pow2(w.attempt)
          /\ (cl.method = "generate_completion" /\ w.kind = "rate_limit") =>
               w.wait = 2 * cl.retry_delay * Pow2(w.attempt)
          /\ (cl.method = "generate_embeddings" /\ w.kind = "rate_limit") =>
               w.wait = Pow2(w.attempt)
          /\ (cl.method = "generate_embeddings" /\ w.kind = "timeout") =>
               w.wait = 1

C10_Witness ==
  /\ cl.pc # "idle"
  /\ cl.method = "generate_completion"
  /\ cl.retry_delay = 3
  /\ Len(cl.waits) = 2
  /\ cl.waits[1].kind = "timeout" /\ cl.waits[1].wait = 3
  /\ cl.waits[2].kind = "rate_limit" /\ cl.waits[2].wait = 12

\* C11 (as claimed): a non-transient upstream failure (authentication,
\* malformed input) ends generate_completion and generate_embeddings at
\* once: the failure is raised after that upstream call, and no wait and no
\* further upstream call follows it.
C11_NonTransientPropagates ==
  cl.pc # "idle" =>
    /\ \A i \in 1..Len(cl.waits) : cl.waits[i].kind # "api_permanent"
    /\ cl.last = "api_permanent" => (cl.pc = "done" /\ cl.outcome = "raised")

\* the scores a branch gave a content: those of its documents with that
\* content, or 0 when it has none
BranchScores(branch, content) ==
  IF \E i \in 1..Len(branch) : branch[i].content = content
  THEN { branch[i].score : i \in { j \in 1..Len(branch) : branch[j].content = content } }
  ELSE { 0 }

HybridReturned ==
  Returned /\ call.strategy = "hybrid" /\ call.failed = "none" /\ call.invoked

\* C12 (as claimed): in the list hybrid retrieval hands on, every document's
\* fused score is its vector-branch score times vector_weight plus its
\* keyword-branch score times keyword_weight (0 for a branch that did not
\* return its content), every content of either branch occurs exactly once,
\* and the list is in descending order of fused score.
C12_FusedScore ==
  HybridReturned =>
    LET F == call.fusion
    IN  /\ \A i \in 1..Len(F.out) :
             \E vs \in BranchScores(F.v, F.out[i].content),
                ks \in BranchScores(F.k, F.out[i].content) :
               10 * F.out[i].score = vs * cfg.vector_weight + ks * cfg.keyword_weight
        /\ \A i, j \in 1..Len(F.out) : i # j => F.out[i].content # F.out[j].content
        /\ \A i \in 1..Len(F.v) : \E j \in 1..Len(F.out) : F.out[j].content = F.v[i].content
        /\ \A i \in 1..Len(F.k) : \E j \in 1..Len(F.out) : F.out[j].content = F.k[i].content
        /\ \A i \in 1..(Len(F.out) - 1) : F.out[i].score >= F.out[i + 1].score

\* C12 where every Document has a metadata mapping of its own
C12_FusedScoreCopied == ~ aliased => C12_FusedScore

\* n: the tokens of a content that equal the term (after lower-casing, as
\* the code compares them); m: its whitespace-separated tokens
TermCount(content, term) == Count(LowerText(Split(content)), term)
TokenCount(content) == Len(Split(content))

SingleTerm == call.op = "keyword" /\ Len(call.terms) = 1

\* C13: for a query of one term, every document keyword retrieval returns
\* has n > 0 occurrences of the term among its m tokens and the keyword
\* score n/m exactly, and a document with n = 0 is not returned.
C13_KeywordScore ==
  SingleTerm =>
    /\ \A i \in 1..Len(call.docs) :
         LET d == call.docs[i]
         IN  /\ TermCount(d.content, call.terms[1]) > 0
             /\ TokenCount(d.content) * d.retrieval_score
                  = TermCount(d.content, call.terms[1]) * UNIT
    /\ \A j \in 1..Len(call.before) :
         TermCount(call.before[j].content, call.terms[1]) = 0 =>
           \A i \in 1..Len(call.docs) : call.docs[i].id # call.before[j].id

C13_Witness ==
  /\ SingleTerm
  /\ Len(call.before) = 2
  /\ Len(call.docs) = 1
  /\ TokenCount(call.docs[1].content) = 3
  /\ TermCount(call.docs[1].content, call.terms[1]) = 2
  /\ 3 * call.docs[1].retrieval_score = 2 * UNIT


\* C14: after any sequence of build, add, rebuild, load and delete
\* operations, successful or failed, the manager's document list has exactly
\* as many entries as its index has embeddings (none when there is no index).
C14_IndexMatchesDocuments == Len(vector_store) = Len(documents)

\* the persisted sidecar can be read and records a dimension
Recorded == disk.exists /\ disk.sidecar.present /\ disk.sidecar.readable

\* C15: load_vector_store reports failure and does not install the loaded
\* index whenever the embedding dimension recorded in the sidecar differs
\* from the embedding dimension of the running configuration.
C15_LoadRejectsDimension ==
  (call.op = "load" /\ Recorded
     /\ disk.sidecar.embedding_dimension # cfg.embedding_dimension)
    => (~ call.ok /\ ~ call.installed)

\* a load that returned True on a fresh manager, over files that a completed
\* save wrote and nothing touched since
RoundTrip == call.op = "load" /\ call.fresh /\ call.ok /\ disk.origin.valid

\* C16: after a successful save on a built index and a load on a fresh
\* manager, the fresh manager holds the index and the document list the
\* saving manager held, and the fixed query finds the same documents with the
\* same scores on both.
C16_SaveLoadRoundTrip ==
  RoundTrip =>
    /\ has_store
    /\ vector_store = disk.origin.vs
    /\ documents = disk.origin.docs
    /\ Search(TheManager) = Search(Manager(TRUE, disk.origin.vs, disk.origin.docs))

C16_Witness ==
  /\ RoundTrip
  /\ Len(documents) = 2
  /\ Len(Search(TheManager)) = 2

\* C17: after delete_vector_store returns, in every case, the manager holds
\* no index and an empty document list, and nothing remains persisted at the
\* path (neither the index directory nor the sidecar).
C17_DeleteClears ==
  call.op = "delete" =>
    /\ ~ has_store
    /\ documents = <<>>
    /\ ~ disk.exists
    /\ ~ disk.sidecar.present

\* the latest two chat operations went through LangChainRunner, completed,
\* and name the same session
TwoRunnerChats ==
  /\ rn.prev.by = "runner" /\ rn.last.by = "runner"
  /\ rn.prev.raised = "none" /\ rn.last.raised = "none"
  /\ rn.prev.session_id = rn.last.session_id

\* C18: when two chat operations with the same session_id are executed one
\* after the other through LangChainRunner, the conversation history loaded
\* for the second contains the user message and the response of the first.
C18_SessionHistoryKept ==
  (TwoRunnerChats /\ rn.last.response # Apology) =>
    /\ <<"user", rn.prev.message>> \in SeqToSet(rn.last.history)
    /\ <<"assistant", rn.prev.response>> \in SeqToSet(rn.last.history)

\* what the contract yields for a text: the upper-cased name of the first of
\* the five boroughs found, the lower-case status keyword found, and no key
\* for a category with no match
ContractFilters(text) ==
  LET t == LowerText(text)
      found == { i \in 1..Len(Boroughs) : BoroughInText(Boroughs[i], t) }
      first == CHOOSE i \in found : \A j \in found : i <= j
      status == FirstBranch(<< <<InText("open", t), "open">>,
                               <<InText("closed", t), "closed">>,
                               <<InText("escalated", t), "escalated">> >>)
      keys == (IF found # {} THEN {"borough"} ELSE {})
              \cup (IF status # "none" THEN {"status"} ELSE {})
  IN  [ key \in keys |-> IF key = "borough" THEN Upper(Boroughs[first]) ELSE status ]

\* the borough and status part of a filter mapping
BoroughAndStatus(f) == [ key \in DOMAIN f \cap {"borough", "status"} |-> f[key] ]

\* C19: filter extraction from query text yields borough as the upper-cased
\* name of the first of the five boroughs found and status as the lower-case
\* keyword (open, closed or escalated) found, and omits every category with
\* no match, in the retriever as in the RAG chain.
C19_ExtractedFilters ==
  call.op = "extract" =>
    /\ call.implicit = ContractFilters(call.text)
    /\ BoroughAndStatus(call.question) = ContractFilters(call.text)

\* the RAG chain's extraction alone meets the statement
C19_QuestionFilters ==
  call.op = "extract" => BoroughAndStatus(call.question) = ContractFilters(call.text)

\* the diversity filter applied to a list of documents given by their ids
\* (the filter reads content, complaint_type and borough, which no stage
\* writes)
DiversityOfIds(ids, c) ==
  LET H == [ vs |-> [i \in 1..Len(ids) |-> CHOOSE d \in DocPool : d.id = ids[i]],
             docs |-> <<>>, aliased |-> FALSE ]
      refs == [i \in 1..Len(ids) |-> Ref("vs", i)]
  IN  Ids(Snap(H, _ensure_diversity(H, refs, c)))

\* a is b in another order
Permutation(a, b) ==
  /\ Len(a) = Len(b)
  /\ \A x \in SeqToSet(a) \cup SeqToSet(b) :
        Cardinality({ i \in 1..Len(a) : a[i] = x })
          = Cardinality({ i \in 1..Len(b) : b[i] = x })

\* a retrieve call that ran all its stages
Completed == Returned /\ call.invoked /\ call.failed = "none"

\* C20: within one retrieve call the filters are extracted from the
\* preprocessed query, exactly one of the four strategies is dispatched, its
\* output is reranked (when reranking is on) before the diversity filter
\* sees it, and the returned list is the first k elements of the diversity
\* filter applied to the reranked strategy output.
C20_StageOrder ==
  Completed =>
    /\ call.implicit = _extract_query_filters(_preprocess_query(call.query))
    /\ call.strategy \in Strategies
    /\ IF cfg.rerank
       THEN /\ Permutation(call.diversity_in, call.strategy_out)
            /\ \A i \in 1..Len(call.docs) : call.docs[i].rerank_score # ABSENT
            /\ \A i \in 1..(Len(call.docs) - 1) :
                  call.docs[i].rerank_score >= call.docs[i + 1].rerank_score
       ELSE call.diversity_in = call.strategy_out
    /\ call.diversity_out = DiversityOfIds(call.diversity_in, cfg)
    /\ Ids(call.docs) = Take(call.diversity_out, cfg.k)

\* reranking changed the order, the diversity filter then dropped a
\* document, and the result is what is left
C20_Witness ==
  /\ Completed
  /\ cfg.rerank
  /\ call.diversity_in # call.strategy_out
  /\ Len(call.diversity_out) < Len(call.diversity_in)
  /\ call.docs # <<>>

\* a call of the semantic-expansion strategy on an index
Expanded == call.op = "semantic" /\ has_store

\* C21: in semantic-expansion retrieval the first vector search is issued
\* with the original (unexpanded) query text, and the second search, issued
\* only when the first returned fewer than k documents, is issued with the
\* expanded query text.
C21_SearchTexts ==
  Expanded =>
    /\ Len(call.searches) >= 1
    /\ call.searches[1] = call.pq.normalized
    /\ (Len(call.searches) = 2) = (Len(call.first) < cfg.k)
    /\ Len(call.searches) = 2 => call.searches[2] = call.pq.expanded

\* C22: semantic-expansion retrieval issues exactly one vector search when
\* the first search returns at least k documents and returns that result
\* unchanged; otherwise its result is the first search's documents in their
\* original order followed by those documents of the second search whose
\* content equals the content of no first-search document.
C22_ExpansionResult ==
  Expanded =>
    IF Len(call.first) >= cfg.k
    THEN Len(call.searches) = 1 /\ call.docs = call.first
    ELSE /\ Len(call.searches) = 2
         /\ Ids(call.docs) =
              Ids(call.first) \o
                Ids(SelectSeq(call.second, LAMBDA d :
                      \A i \in 1..Len(call.first) : call.first[i].content # d.content))

\* the first search failed and found nothing, and the second search, issued
\* because k was not met, supplies the documents
C22_Witness ==
  /\ Expanded
  /\ Len(call.first) < cfg.k
  /\ Len(call.searches) = 2
  /\ Len(call.docs) > Len(call.first)

\* the composite score of the statement: the base retrieval score, plus 0.1
\* when the complaint_type shares a token with the query, plus 0.05 when the
\* risk_score exceeds 0.7 (letter case set aside)
CompositeScore(q, d) ==
  LET words == SeqToSet(LowerText(Split(q)))
      shares == Lower(d.complaint_type) \in words
      risky == d.risk_score # ABSENT /\ d.risk_score > HighRisk
  IN  GetScore(d) + (IF shares THEN TypeBonus ELSE 0) + (IF risky THEN RiskBonus ELSE 0)

\* position of the document with an id in a list of documents with distinct ids
PositionOf(id, ds) == CHOOSE i \in 1..Len(ds) : ds[i].id = id

\* C23: reranking returns a permutation of its input sorted by descending
\* composite score (base retrieval score, plus 0.1 for a complaint_type token
\* shared with the query, plus 0.05 for a risk_score above 0.7); documents of
\* equal composite score keep their relative input order.
C23_RerankOrder ==
  call.op = "rerank" =>
    /\ Permutation(Ids(call.docs), Ids(call.before))
    /\ \A i \in 1..Len(call.docs) :
         call.docs[i].rerank_score = CompositeScore(call.query, call.docs[i])
    /\ \A i, j \in 1..Len(call.docs) :
         i < j =>
           \/ CompositeScore(call.query, call.docs[i]) > CompositeScore(call.query, call.docs[j])
           \/ /\ CompositeScore(call.query, call.docs[i]) = CompositeScore(call.query, call.docs[j])
              /\ PositionOf(call.docs[i].id, call.before) < PositionOf(call.docs[j].id, call.before)

\* the same with the type bonus as the code gives it: for a query word that
\* is a substring of the complaint_type
C23_RerankOrderSubstring ==
  call.op = "rerank" =>
    /\ Permutation(Ids(call.docs), Ids(call.before))
    /\ \A i \in 1..Len(call.docs) :
         call.docs[i].rerank_score = _calculate_rerank_score(call.query, call.docs[i])
    /\ \A i, j \in 1..Len(call.docs) :
         i < j =>
           \/ call.docs[i].rerank_score > call.docs[j].rerank_score
           \/ /\ call.docs[i].rerank_score = call.docs[j].rerank_score
              /\ PositionOf(call.docs[i].id, call.before) < PositionOf(call.docs[j].id, call.before)

\* C24: for every input list and every k >= 1, the list returned by
\* _ensure_diversity has at most k documents.
C24_DiversityAtMostK ==
  (call.op = "diversify" /\ cfg.k >= 1) => Len(call.docs) <= cfg.k

\* redundant, by the wording of the statement: same complaint_type, same
\* borough and word-level Jaccard similarity of the contents above the
\* threshold (thr10 tenths)
Redundant(d1, d2, thr10) ==
  /\ d1.complaint_type = d2.complaint_type
  /\ d1.borough = d2.borough
  /\ WordSet(d1) \cup WordSet(d2) # {}
  /\ 10 * Cardinality(WordSet(d1) \cap WordSet(d2))
       > thr10 * Cardinality(WordSet(d1) \cup WordSet(d2))

\* the input documents before position p that were accepted
AcceptedBefore(p) ==
  { i \in 1..(p - 1) : call.before[i].id \in SeqToSet(Ids(call.docs)) }

\* out lists some of the elements of inp (distinct ids) in the order of inp
Subsequence(out, inp) ==
  /\ \A i \in 1..Len(out) : \E p \in 1..Len(inp) : inp[p] = out[i]
  /\ \A i, j \in 1..Len(out) :
       i < j => PositionOf(out[i].id, inp) < PositionOf(out[j].id, inp)

\* C30: the list returned by the diversity filter is a subsequence of its
\* input, no two documents in it are redundant with each other, and a
\* candidate examined before k documents were accepted is dropped only if it
\* is redundant with an already accepted document.
C30_DiversityFilter ==
  call.op = "diversify" =>
    /\ Subsequence(call.docs, call.before)
    /\ \A i, j \in 1..Len(call.docs) :
         i # j => ~ Redundant(call.docs[i], call.docs[j], cfg.diversity_threshold)
    /\ \A p \in 1..Len(call.before) :
         (/\ call.before[p].id \notin SeqToSet(Ids(call.docs))
          /\ Cardinality(AcceptedBefore(p)) < cfg.k)
           => \E i \in AcceptedBefore(p) :
                Redundant(call.before[p], call.before[i], cfg.diversity_threshold)

\* of three documents the second was dropped as redundant with the first and
\* the third accepted
C30_Witness ==
  /\ call.op = "diversify"
  /\ Len(call.before) = 3
  /\ Ids(call.docs) = << call.before[1].id, call.before[3].id >>
  /\ Redundant(call.before[2], call.before[1], cfg.diversity_threshold)

\* the reply went through _validate_analysis_output; its risk_score member
Validated ==
  /\ an.pc = "done" /\ ~ an.llm.raises
  /\ _validate_and_parse_json(an.llm.output).kind = "dict"

ModelRisk == _validate_and_parse_json(an.llm.output).risk_score

OutOfRange(r) == r.t = "num" /\ (r.v < 0 \/ r.v > UNIT)

\* C25 (as claimed): the validated analysis has a risk_score within [0, 1],
\* and the risk_score is 0.5 whenever the model's value cannot be parsed as a
\* number or lies outside [0, 1].
C25_RiskDefault ==
  Validated =>
    /\ an.result.risk_score >= 0 /\ an.result.risk_score <= UNIT
    /\ (ModelRisk.t = "str" \/ OutOfRange(ModelRisk)) => an.result.risk_score = UNIT \div 2

\* C25 (amended): the validated risk_score is within [0, 1]; it is 0.5 when
\* the model's value cannot be parsed as a number, the nearest bound (0 or 1)
\* when the value is a number outside [0, 1], the value itself when it is a
\* number within [0, 1], and 0 when the reply has no risk_score.
C25_RiskClamped ==
  Validated =>
    /\ an.result.risk_score >= 0 /\ an.result.risk_score <= UNIT
    /\ ModelRisk.t = "str" => an.result.risk_score = UNIT \div 2
    /\ (ModelRisk.t = "num" /\ ModelRisk.v > UNIT) => an.result.risk_score = UNIT
    /\ (ModelRisk.t = "num" /\ ModelRisk.v < 0) => an.result.risk_score = 0
    /\ (ModelRisk.t = "num" /\ ~ OutOfRange(ModelRisk)) =>
         an.result.risk_score = ModelRisk.v
    /\ ModelRisk.t = "missing" => an.result.risk_score = 0

\* a reply whose risk_score 1.7 was validated to 1.0
C25_Witness ==
  /\ Validated
  /\ OutOfRange(ModelRisk) /\ ModelRisk.v > UNIT
  /\ an.result.risk_score = UNIT

\* C26: a retrieve call leaves the documents stored in the vector store
\* manager (those of the index and those of the document list, content and
\* metadata) unchanged, so that nothing is carried over to later calls.
C26_StoresUnchanged ==
  [][ (call.op = "none" /\ call'.op = "retrieve")
        => (vector_store' = vector_store /\ documents' = documents) ]_vars

\* C27: for every strategy, every document returned by retrieve satisfies
\* the combined filter of the call: for each key of the combined
\* caller-supplied and query-derived filters, the document's metadata has
\* that key with the filter's value.
C27_ResultsMatchFilter ==
  Returned =>
    \A i \in 1..Len(call.docs) : MatchesFilter(call.docs[i], call.combined)

\* the same for the two strategies that only search the index
C27_IndexResultsMatchFilter ==
  (Returned /\ call.strategy \in {"vector_only", "semantic_expansion"}) =>
    \A i \in 1..Len(call.docs) : MatchesFilter(call.docs[i], call.combined)

\* the payload of an envelope is itself a failure envelope
FailureInside(envelope) ==
  /\ envelope.data.kind = "envelope"
  /\ ~ envelope.data.success

\* C28: run never returns success = true with a data payload that is itself
\* a failure envelope: an operation that failed (the pgvector operations
\* included) is reported with success = false.
C28_FailureReported ==
  (rn.pc # "idle" /\ rn.pc # "chat" /\ rn.ran /\ rn.run_out.raised = "none"
     /\ rn.run_out.value.success)
    => ~ FailureInside(rn.run_out.value)

\* the history of a session before it exists: ConversationSummaryBufferMemory
\* starts with no messages
HistoryOf(sessions, session_id) ==
  IF session_id \in DOMAIN sessions THEN sessions[session_id] ELSE <<>>

\* the step is a chat call on the module-level chat chain
ChainChatStep == rn.pc = "chat" /\ rn'.n = rn.n + 1 /\ rn'.last.by = "chain"

\* C29: on one ChatChain, a chat call with a non-empty message, whether it
\* succeeds or ends in the error response, appends exactly one user message
\* followed by one assistant message to the history of the session named by
\* session_id and leaves every other session as it was; a chat call with an
\* empty or whitespace-only message raises and changes no session.
C29_ChatAppendsExchange ==
  [][ ChainChatStep =>
        IF Strip(rn'.last.message) = <<>>
        THEN /\ rn'.last.raised = "ValueError"
             /\ rn'.sessions = rn.sessions
        ELSE /\ rn'.last.raised = "none"
             /\ DOMAIN rn'.sessions = DOMAIN rn.sessions \cup {rn'.last.session_id}
             /\ rn'.sessions[rn'.last.session_id] =
                  HistoryOf(rn.sessions, rn'.last.session_id)
                    \o << <<"user", rn'.last.message>>,
                          <<"assistant", rn'.last.response>> >>
             /\ \A o \in DOMAIN rn.sessions \ {rn'.last.session_id} :
                  rn'.sessions[o] = rn.sessions[o] ]_vars

\* a chat that ended in the error response on a session that already had an
\* exchange, while another session holds an exchange of its own
C29_Witness ==
  /\ rn.pc = "chat" /\ rn.last.by = "chain" /\ rn.last.raised = "none"
  /\ rn.last.response = Apology
  /\ DOMAIN rn.sessions = SessionIds
  /\ Len(rn.sessions[rn.last.session_id]) = 4
  /\ \E o \in SessionIds \ {rn.last.session_id} : Len(rn.sessions[o]) = 2


====
